---------------------------- MODULE Spec2Model ----------------------------
(***************************************************************************)
(* OpenSecureConf: encrypted configuration store, cluster salt bootstrap   *)
(* and SSE event bus.                                                      *)
(*                                                                         *)
(* The module holds these state machines over one set of variables:        *)
(*   SpecSalt    cluster salt bootstrap (cluster_manager.sync_encryption_  *)
(*               salt, routes/cluster_routes.py salt endpoints,            *)
(*               config_manager.EncryptionManager._load_or_create_salt);   *)
(*               FairSpecSalt adds the progress of each node's startup     *)
(*   SpecStore   concurrent ConfigurationManager writes on the             *)
(*               configurations table                                      *)
(*   SpecCrypto  one caller writing and reading, and the stored            *)
(*               ciphertext being tampered with                            *)
(*   SpecSSE     SSEManager subscribe / unsubscribe / broadcast_event      *)
(*   SpecFifo    the same bus with a queue of two and one stream reader    *)
(*   SpecClusterManager  one ClusterManager: health checks, fan-out of     *)
(*               writes, federated queries, reconciliation pulls           *)
(*   SpecCluster two REPLICA or FEDERATED nodes serving create, update     *)
(*               and delete; FairSpecCluster adds the progress of the      *)
(*               background loops                                          *)
(*   SpecLifecycle  ClusterManager.start() and stop()                      *)
(*   SpecPopulated  SpecStore on a table that holds one entry already      *)
(*   SpecDuration   subscriptions opened and closed while time passes      *)
(*   SpecStream  the SSE stream handler of routes/sse_routes.py and its    *)
(*               generator; FairSpecStream adds the progress of the        *)
(*               generators                                                *)
(*   SpecRegistry   one ClusterManager built from any node id and peer     *)
(*               list                                                      *)
(*   SpecFederatedList  federated_list calls of one manager whose peers    *)
(*               take creates                                              *)
(*   SpecPush    the salt bootstrap with POST /cluster/salt handled in     *)
(*               its two steps, the test for the file and its writing      *)
(*   SpecApi     OpenSecureConfClient: one call and the answer to it       *)
(*   SpecSSEClient  SSEClient: connect, disconnect and its reconnect loop  *)
(*   SpecLoops   the background loops of one manager with iterations that  *)
(*               raise; FairSpecLoops adds the progress of the two tasks   *)
(***************************************************************************)
EXTENDS Integers, Sequences, FiniteSets, TLC

(***************************************************************************)
(* Cluster salt bootstrap                                                  *)
(***************************************************************************)

\* The cluster of the bootstrap scenario: three nodes, each configured with
\* the other two as peers.
NodeSeq == <<"node-a", "node-b", "node-c">>

Nodes == {NodeSeq[i] : i \in 1..Len(NodeSeq)}

\* Position of a node id in lexicographic order (list.sort() on the ids).
Rank(n) == CHOOSE i \in 1..Len(NodeSeq) : NodeSeq[i] = n

\* self.nodes: the registry built by the constructor, self excluded.
PeerSeq(n) == SelectSeq(NodeSeq, LAMBDA m : m # n)

\* range(5) of the poll loop.
PollAttempts == 5

\* len(salt_data) the salt endpoint insists on.
SaltSize == 64

NoSalt == [by |-> "none", no |-> 0]

\* A salt file that was on disk before the cluster was first started.
ProvisionedSalt == [by |-> "operator", no |-> 0]

\* secrets.token_bytes(64): the k-th draw of node n; two draws never agree.
FreshSalt(n, k) == [by |-> n, no |-> k]

SaltLen(s) == IF s = NoSalt THEN 0 ELSE SaltSize

VARIABLES
    saltFile,     \* node -> content of OSC_SALT_FILE_PATH (NoSalt: no file)
    pc,           \* node -> position of the lifespan / sync_encryption_salt
    idx,          \* node -> index of the next peer in the running loop
    attempt,      \* node -> poll attempts started (for attempt in range(5))
    saltData,     \* node -> local variable salt_data of sync_encryption_salt
    syncResult,   \* node -> return value of sync_encryption_salt
    generated,    \* node -> number of secrets.token_bytes(64) draws made
    receiving,    \* node -> the POST /cluster/salt requests its handler
                  \* found no salt file for and has not saved yet
    pushed,       \* node -> peer -> how its POST /cluster/salt to it ended
    table,        \* rows of the configurations table
    clock,        \* datetime.utcnow(), as the number of readings taken
    call,         \* worker thread -> the store call it is running
    ret,          \* worker thread -> what its last call returned or raised
    subscriptions,   \* SSEManager.subscriptions: id -> filters and queue
    by_key,          \* SSEManager.by_key: key filter -> ids
    by_environment,  \* SSEManager.by_environment
    by_category,     \* SSEManager.by_category
    stats,           \* SSEManager.stats
    event,           \* the SSEEvent the last broadcast_event built
    yielded,         \* id -> timestamp of the event its stream yielded last
    max_queue_size,  \* SSEManager.max_queue_size
    datetime_now,    \* datetime.now() of the event bus, in seconds
    stream,          \* id -> the connection and the event_generator of it
    cluster_mode,    \* ClusterManager.cluster_mode (OSC_CLUSTER_MODE)
    nodes,           \* node -> ClusterManager.nodes: peer -> is_healthy
    reachable,       \* node -> how it answers requests, a member of NodeStates
    probed,          \* node -> peer -> how the last health probe ended
    fanout,          \* node -> its running broadcast_* / federated_* call
    health,          \* node -> position of its _health_check_loop
    sync,            \* node -> position of its _sync_loop
    configs,         \* node -> rows of its configurations table
    response,        \* node -> the last answer of a write handler
    manager,         \* node -> how far start() and stop() have come
    background_tasks, \* node -> ClusterManager._background_tasks
    api,             \* OpenSecureConfClient: its last call, the answer to
                     \* it and what the call returned or raised
    sse_client       \* SSEClient: its fields and its connection task

saltVars == <<saltFile, pc, idx, attempt, saltData, syncResult, generated,
              receiving, pushed>>

storeVars == <<table, clock, call, ret>>

sseVars == <<subscriptions, by_key, by_environment, by_category, stats, event,
             yielded, max_queue_size, datetime_now, stream>>

clientVars == <<api, sse_client>>

clusterVars == <<cluster_mode, nodes, reachable, probed, fanout, health, sync,
                 configs, response, manager, background_tasks>>

vars == <<saltFile, pc, idx, attempt, saltData, syncResult, generated,
          receiving, pushed,
          table, clock, call, ret,
          subscriptions, by_key, by_environment, by_category, stats, event,
          yielded, max_queue_size, datetime_now, stream,
          cluster_mode, nodes, reachable, probed, fanout, health, sync,
          configs, response, manager, background_tasks, api, sse_client>>

\* The application serves HTTP requests once the lifespan startup has run.
Serving(n) == pc[n] = "serving"

\* an election every node wins
BootstrapNode_self(n) == n

\* all_node_ids = [self.node_id] + peers; sort(); bootstrap_node = [0]
BootstrapNode(n) ==
    CHOOSE m \in {n} \cup {PeerSeq(n)[i] : i \in 1..Len(PeerSeq(n))} :
        \A k \in {n} \cup {PeerSeq(n)[i] : i \in 1..Len(PeerSeq(n))} :
            Rank(m) <= Rank(k)

\* The poll loop walks all_node_ids (sorted) and skips self.
PollSeq(n) == SelectSeq(NodeSeq, LAMBDA m : m # n)

\* GET /cluster/salt on node m.
get_cluster_salt(m) ==
    IF saltFile[m] = NoSalt
    THEN [status |-> 404, content |-> NoSalt]
    ELSE [status |-> 200, content |-> saltFile[m]]

\* POST /cluster/salt on node m with body: the answer's status code ...
receive_cluster_salt_status(m, body) ==
    IF saltFile[m] # NoSalt
    THEN IF saltFile[m] = body THEN 200 ELSE 409
    ELSE IF SaltLen(body) # SaltSize THEN 400 ELSE 200

\* ... and the salt file of node m afterwards.
receive_cluster_salt_file(m, body) ==
    IF saltFile[m] # NoSalt
    THEN saltFile[m]
    ELSE IF SaltLen(body) # SaltSize THEN saltFile[m] ELSE body

SaltInit ==
    /\ saltFile \in [Nodes -> {NoSalt, ProvisionedSalt}]
    /\ pc = [n \in Nodes |-> "init"]
    /\ idx = [n \in Nodes |-> 1]
    /\ attempt = [n \in Nodes |-> 0]
    /\ saltData = [n \in Nodes |-> NoSalt]
    /\ syncResult = [n \in Nodes |-> "pending"]
    /\ generated = [n \in Nodes |-> 0]
    /\ receiving = [n \in Nodes |-> {}]
    /\ pushed = [n \in Nodes |-> [m \in Nodes \ {n} |-> "none"]]

\* lifespan calls sync_encryption_salt: has_local_salt = os.path.exists(...)
SyncStart(n) ==
    /\ pc[n] = "init"
    /\ IF saltFile[n] # NoSalt
       THEN /\ saltData' = [saltData EXCEPT ![n] = saltFile[n]]
            /\ pc' = [pc EXCEPT ![n] = "distribute"]
       ELSE /\ saltData' = saltData
            /\ pc' = [pc EXCEPT ![n] = "fetch"]
    /\ idx' = [idx EXCEPT ![n] = 1]
    /\ UNCHANGED <<saltFile, attempt, syncResult, generated>>

\* One iteration of a push loop of node n (the loop at position here): the
\* POST reaches peer m and its handler runs, or the request raises.
PushStep(n, here) ==
    /\ pc[n] = here
    /\ LET m == PeerSeq(n)[idx[n]] IN
       \/ /\ Serving(m)
          /\ saltFile' = [saltFile EXCEPT
                             ![m] = receive_cluster_salt_file(m, saltData[n])]
       \/ /\ saltFile' = saltFile
    /\ IF idx[n] = Len(PeerSeq(n))
       THEN /\ pc' = [pc EXCEPT ![n] = "serving"]
            /\ syncResult' = [syncResult EXCEPT ![n] = "true"]
            /\ idx' = idx
       ELSE /\ idx' = [idx EXCEPT ![n] = idx[n] + 1]
            /\ UNCHANGED <<pc, syncResult>>
    /\ UNCHANGED <<attempt, saltData, generated>>

\* has_local_salt branch: push the local salt to every peer, return True.
Distribute(n) == PushStep(n, "distribute")

\* No local salt: GET the salt from each peer in turn; the first 200 answer
\* is written to the local file and the call returns True.
Fetch(n) ==
    /\ pc[n] = "fetch"
    /\ LET m == PeerSeq(n)[idx[n]] IN
       \/ /\ Serving(m)
          /\ get_cluster_salt(m).status = 200
          /\ saltFile' = [saltFile EXCEPT ![n] = get_cluster_salt(m).content]
          /\ saltData' = [saltData EXCEPT ![n] = get_cluster_salt(m).content]
          /\ pc' = [pc EXCEPT ![n] = "serving"]
          /\ syncResult' = [syncResult EXCEPT ![n] = "true"]
          /\ idx' = idx
       \/ /\ \/ ~Serving(m)
             \/ Serving(m) /\ get_cluster_salt(m).status # 200
             \/ Serving(m)      \* the request raises (timeout, network)
          /\ IF idx[n] = Len(PeerSeq(n))
             THEN /\ pc' = [pc EXCEPT ![n] = "elect"]
                  /\ idx' = idx
             ELSE /\ idx' = [idx EXCEPT ![n] = idx[n] + 1]
                  /\ pc' = pc
          /\ UNCHANGED <<saltFile, saltData, syncResult>>
    /\ UNCHANGED <<attempt, generated>>

\* Bootstrap: the first node id alphabetically generates the salt and saves
\* it; every other node goes on to poll.
Elect(n) ==
    /\ pc[n] = "elect"
    /\ IF n = BootstrapNode(n)
       THEN /\ generated' = [generated EXCEPT ![n] = generated[n] + 1]
            /\ saltData' = [saltData EXCEPT
                               ![n] = FreshSalt(n, generated[n] + 1)]
            /\ saltFile' = [saltFile EXCEPT
                               ![n] = FreshSalt(n, generated[n] + 1)]
            /\ pc' = [pc EXCEPT ![n] = "grace"]
       ELSE /\ pc' = [pc EXCEPT ![n] = "wait"]
            /\ UNCHANGED <<generated, saltData, saltFile>>
    /\ UNCHANGED <<idx, attempt, syncResult>>

\* await asyncio.sleep(2) of the generator before it distributes.
Grace(n) ==
    /\ pc[n] = "grace"
    /\ pc' = [pc EXCEPT ![n] = "bootpush"]
    /\ idx' = [idx EXCEPT ![n] = 1]
    /\ UNCHANGED <<saltFile, attempt, saltData, syncResult, generated>>

\* The generator pushes the new salt to every peer and returns True.
BootPush(n) == PushStep(n, "bootpush")

\* for attempt in range(5): await asyncio.sleep(2); when the range is
\* exhausted the call returns False.
PollSleep(n) ==
    /\ pc[n] = "wait"
    /\ IF attempt[n] < PollAttempts
       THEN /\ attempt' = [attempt EXCEPT ![n] = attempt[n] + 1]
            /\ pc' = [pc EXCEPT ![n] = "poll"]
            /\ idx' = [idx EXCEPT ![n] = 1]
            /\ syncResult' = syncResult
       ELSE /\ pc' = [pc EXCEPT ![n] = "serving"]
            /\ syncResult' = [syncResult EXCEPT ![n] = "false"]
            /\ UNCHANGED <<attempt, idx>>
    /\ UNCHANGED <<saltFile, saltData, generated>>

\* One GET of a poll attempt.  A 200 answer is saved and the call returns
\* True; another status moves to the next node id; an exception leaves the
\* whole attempt (the try encloses the loop over the node ids).
PollGet(n) ==
    /\ pc[n] = "poll"
    /\ LET m == PollSeq(n)[idx[n]] IN
       \/ /\ Serving(m)
          /\ get_cluster_salt(m).status = 200
          /\ saltFile' = [saltFile EXCEPT ![n] = get_cluster_salt(m).content]
          /\ saltData' = [saltData EXCEPT ![n] = get_cluster_salt(m).content]
          /\ pc' = [pc EXCEPT ![n] = "serving"]
          /\ syncResult' = [syncResult EXCEPT ![n] = "true"]
          /\ idx' = idx
       \/ /\ Serving(m)
          /\ get_cluster_salt(m).status # 200
          /\ IF idx[n] = Len(PollSeq(n))
             THEN /\ pc' = [pc EXCEPT ![n] = "wait"]
                  /\ idx' = idx
             ELSE /\ idx' = [idx EXCEPT ![n] = idx[n] + 1]
                  /\ pc' = pc
          /\ UNCHANGED <<saltFile, saltData, syncResult>>
       \/ /\ pc' = [pc EXCEPT ![n] = "wait"]
          /\ UNCHANGED <<saltFile, saltData, syncResult, idx>>
    /\ UNCHANGED <<attempt, generated>>

\* EncryptionManager._load_or_create_salt, run by get_config_manager for a
\* request on a serving node: a missing salt file is created from a new
\* random salt.
load_or_create_salt(n) ==
    /\ Serving(n)
    /\ saltFile[n] = NoSalt
    /\ generated' = [generated EXCEPT ![n] = generated[n] + 1]
    /\ saltFile' = [saltFile EXCEPT ![n] = FreshSalt(n, generated[n] + 1)]
    /\ UNCHANGED <<pc, idx, attempt, saltData, syncResult>>

\* A push loop of node n is through with the peer at idx: it goes on with
\* the next peer, and after the last one the call returns True.
NextPeer(n) ==
    IF idx[n] = Len(PeerSeq(n))
    THEN /\ pc' = [pc EXCEPT ![n] = "serving"]
         /\ syncResult' = [syncResult EXCEPT ![n] = "true"]
         /\ idx' = idx
    ELSE /\ idx' = [idx EXCEPT ![n] = idx[n] + 1]
         /\ UNCHANGED <<pc, syncResult>>

\* node n awaits the answer to a POST /cluster/salt
Awaiting(n) == \E m \in Nodes : \E q \in receiving[m] : q.sender = n

\* One client.post of a push loop of node n, and receive_cluster_salt on
\* the peer up to its await request.body(): a handler that finds a salt
\* file answers ok or 409 and the loop goes on; a handler that finds none
\* goes on to read the body; a request that raises lets the loop go on.
post_cluster_salt(n) ==
    /\ pc[n] \in {"distribute", "bootpush"}
    /\ ~Awaiting(n)
    /\ LET m == PeerSeq(n)[idx[n]] IN
       \/ /\ Serving(m)
          /\ saltFile[m] # NoSalt
          /\ pushed' = [pushed EXCEPT ![n][m] =
                 IF saltFile[m] = saltData[n] THEN "ok" ELSE "conflict"]
          /\ NextPeer(n)
          /\ UNCHANGED receiving
       \/ /\ Serving(m)
          /\ saltFile[m] = NoSalt
          /\ receiving' = [receiving EXCEPT ![m] =
                 @ \cup {[sender |-> n, body |-> saltData[n]]}]
          /\ UNCHANGED <<pushed, pc, idx, syncResult>>
       \/ /\ pushed' = [pushed EXCEPT ![n][m] = "error"]
          /\ NextPeer(n)
          /\ UNCHANGED receiving
    /\ UNCHANGED <<saltFile, attempt, saltData, generated>>

\* receive_cluster_salt on node m after its await request.body(): a body of
\* another size than 64 is answered with 400, any other body is written to
\* the salt file and answered with status created
receive_cluster_salt(m) ==
    /\ \E q \in receiving[m] :
          /\ receiving' = [receiving EXCEPT ![m] = @ \ {q}]
          /\ IF SaltLen(q.body) # SaltSize
             THEN /\ saltFile' = saltFile
                  /\ pushed' = [pushed EXCEPT ![q.sender][m] = "invalid"]
             ELSE /\ saltFile' = [saltFile EXCEPT ![m] = q.body]
                  /\ pushed' = [pushed EXCEPT ![q.sender][m] = "created"]
          /\ NextPeer(q.sender)
    /\ UNCHANGED <<attempt, saltData, generated>>


(***************************************************************************)
(* Encrypted store: EncryptionManager and ConfigurationManager             *)
(***************************************************************************)

Keys == {"db"}

Environments == {"prod", "dev"}

Values == {"v1", "v2"}

None == "None"

\* environment arguments a caller may pass: None is the default of create
\* when the argument is left out
EnvironmentArgs == Environments \cup {"", None}

\* a manager that takes any environment argument
Missing_never(environment) == FALSE

\* not environment
Missing(environment) == environment \in {"", None}

Categories == {None, "c1"}

UserKeys == {"p1", "p2"}

\* threads of asyncio.to_thread running store calls at the same time
Threads == {"t1", "t2"}

\* number of datetime.utcnow() readings (that is, of committed writes)
MaxClock == 2

\* the salt file of the node the store runs on
StoreSalt == ProvisionedSalt

\* PBKDF2HMAC(SHA256, length=32, salt, iterations=480000).derive(user_key)
create_cipher(salt, user_key) == [salt |-> salt, user_key |-> user_key]

\* json.dumps / json.loads
json_dumps(value) == <<"json", value>>

json_loads(text) == text[2]

\* AES-CBC body and HMAC-SHA256 tag of a Fernet token, as symbolic terms
Aes(k, data) == <<"aes", k, data>>

Hmac(k, body) == <<"hmac", k, body>>

\* Fernet(key).encrypt(data)
encrypt(k, data) == [body |-> Aes(k, data), hmac |-> Hmac(k, Aes(k, data))]

InvalidToken == "InvalidToken"

\* a decryption that verifies neither tag nor key
decrypt_unverified(k, token) == token.body[3]

\* Fernet(key).decrypt(token): the tag is verified, then the body is
\* decrypted and unpadded, which fails on a body made under another key
decrypt(k, token) ==
    IF token.hmac # Hmac(k, token.body)
    THEN InvalidToken
    ELSE IF token.body[2] # k
    THEN InvalidToken
    ELSE token.body[3]

NoRow == [id |-> 0, category |-> "-"]

\* what a thread keeps of the row object its query loaded
Loaded(r) == [id |-> r.id, category |-> r.category]

\* a query that selects by key alone
Matching_key_only(t, key, environment) ==
    {r \in t : r.key = key}

\* rows selected by filter_by(key=key, environment=environment)
Matching(t, key, environment) ==
    {r \in t : r.key = key /\ r.environment = environment}

\* a query that finds nothing
First_none(t, key, environment) == NoRow

\* query(...).filter_by(...).first(): the row with the smallest rowid
First(t, key, environment) ==
    IF Matching(t, key, environment) = {}
    THEN NoRow
    ELSE CHOOSE r \in Matching(t, key, environment) :
             \A q \in Matching(t, key, environment) : r.id <= q.id

\* a table without the unique constraint
UniqueViolation_none(t, key, environment) == FALSE

\* UniqueConstraint('key', 'environment'): would the INSERT be refused
UniqueViolation(t, key, environment) == Matching(t, key, environment) # {}

\* INTEGER PRIMARY KEY of SQLite: one more than the largest rowid
NextId(t) ==
    IF t = {} THEN 1
    ELSE 1 + (CHOOSE i \in {r.id : r \in t} : \A r \in t : r.id <= i)

Idle == [pc |-> "idle", op |-> "-", key |-> "-", environment |-> "-",
         value |-> "-", category |-> "-", user_key |-> "-", loaded |-> NoRow]

NoRet == [status |-> "none", op |-> "-", id |-> 0, key |-> "-",
          category |-> "-", environment |-> "-", value |-> "-",
          created_at |-> 0, updated_at |-> 0]

\* the exception a call of op for (key, environment) ends with
Raise(op, error, key, environment) ==
    [NoRet EXCEPT !.status = error, !.op = op, !.key = key,
                  !.environment = environment]

\* the dict a call returns for row r with plaintext value
Returned(op, r, value, stamps) ==
    [status |-> "ok", op |-> op, id |-> r.id, key |-> r.key,
     category |-> r.category, environment |-> r.environment, value |-> value,
     created_at |-> IF stamps THEN r.created_at ELSE 0,
     updated_at |-> IF stamps THEN r.updated_at ELSE 0]

StoreInit ==
    /\ table = {}
    /\ clock = 0
    /\ call = [c \in Threads |-> Idle]
    /\ ret = [c \in Threads |-> NoRet]

\* the calls that take a reading of the clock
StampingOps == {"create", "update"}

InFlightStamps ==
    Cardinality({c \in Threads :
                    call[c].pc # "idle" /\ call[c].op \in StampingOps})

\* the call of a worker thread that has run its first query
Checked(op, key, environment, value, category, user_key, row) ==
    [pc |-> "checked", op |-> op, key |-> key, environment |-> environment,
     value |-> value, category |-> category, user_key |-> user_key,
     loaded |-> Loaded(row)]

\* create, from the call (get_config_manager builds the manager for the
\* caller's user key, the route hands the call to a worker thread) to the
\* existence check; arguments a failing call never looks at are held fixed
create_check(c) ==
    /\ call[c].pc = "idle"
    /\ clock + InFlightStamps < MaxClock
    /\ \E key \in Keys, environment \in EnvironmentArgs, value \in Values,
          category \in Categories, user_key \in UserKeys :
          IF Missing(environment)
          THEN /\ user_key = "p1"
               /\ ret' = [ret EXCEPT ![c] =
                     Raise("create", "ValidationError", key, environment)]
               /\ call' = call
          ELSE IF First(table, key, environment) # NoRow
          THEN /\ value = "v1" /\ category = None /\ user_key = "p1"
               /\ ret' = [ret EXCEPT ![c] =
                     Raise("create", "DuplicateKeyError", key, environment)]
               /\ call' = call
          ELSE /\ ret' = [ret EXCEPT ![c] = NoRet]
               /\ call' = [call EXCEPT ![c] =
                     Checked("create", key, environment, value, category,
                             user_key, NoRow)]
    /\ UNCHANGED <<table, clock>>

\* the row create inserts
NewRow(t, a, now) ==
    [id |-> NextId(t), key |-> a.key,
     encrypted_value |-> encrypt(create_cipher(StoreSalt, a.user_key),
                                 json_dumps(a.value)),
     category |-> a.category, environment |-> a.environment,
     created_at |-> now, updated_at |-> now]

\* create, from encrypt to commit: the INSERT is refused by the unique
\* constraint when a row for the pair was committed since the check
create_commit(c) ==
    /\ call[c].pc = "checked" /\ call[c].op = "create"
    /\ clock' = clock + 1
    /\ IF UniqueViolation(table, call[c].key, call[c].environment)
       THEN /\ table' = table
            /\ ret' = [ret EXCEPT ![c] =
                         Raise("create", "IntegrityError", call[c].key,
                               call[c].environment)]
       ELSE /\ table' = table \cup {NewRow(table, call[c], clock + 1)}
            /\ ret' = [ret EXCEPT ![c] =
                         Returned("create", NewRow(table, call[c], clock + 1),
                                  call[c].value, TRUE)]
    /\ call' = [call EXCEPT ![c] = Idle]

\* what read(key, environment) of a manager with user_key returns on table t
read(t, key, environment, user_key) ==
    IF Missing(environment)
    THEN Raise("read", "ValidationError", key, environment)
    ELSE IF First(t, key, environment) = NoRow
    THEN Raise("read", "NotFoundError", key, environment)
    ELSE IF decrypt(create_cipher(StoreSalt, user_key),
                    First(t, key, environment).encrypted_value) = InvalidToken
    THEN Raise("read", "DecryptionError", key, environment)
    ELSE Returned("read", First(t, key, environment),
                  json_loads(decrypt(create_cipher(StoreSalt, user_key),
                      First(t, key, environment).encrypted_value)),
                  FALSE)

\* a read call: one query, which changes nothing in the table
Read(c) ==
    /\ call[c].pc = "idle"
    /\ \E key \in Keys, environment \in EnvironmentArgs,
          user_key \in UserKeys :
          /\ Missing(environment) => user_key = "p1"
          /\ ret' = [ret EXCEPT ![c] =
                        read(table, key, environment, user_key)]
    /\ UNCHANGED <<table, clock, call>>

\* update and delete, from the call to the query that loads the row
load(c, op, key, environment, value, category, user_key) ==
    /\ call[c].pc = "idle"
    /\ IF Missing(environment)
       THEN /\ ret' = [ret EXCEPT ![c] =
                          Raise(op, "ValidationError", key, environment)]
            /\ call' = call
       ELSE IF First(table, key, environment) = NoRow
       THEN /\ ret' = [ret EXCEPT ![c] =
                          Raise(op, "NotFoundError", key, environment)]
            /\ call' = call
       ELSE /\ ret' = [ret EXCEPT ![c] = NoRet]
            /\ call' = [call EXCEPT ![c] =
                  Checked(op, key, environment, value, category, user_key,
                          First(table, key, environment))]
    /\ UNCHANGED <<table, clock>>

update_query(c) ==
    /\ clock + InFlightStamps < MaxClock
    /\ \E key \in Keys, environment \in EnvironmentArgs, value \in Values,
          category \in Categories, user_key \in UserKeys :
          /\ (Missing(environment) \/ First(table, key, environment) = NoRow)
                 => value = "v1" /\ category = None /\ user_key = "p1"
          /\ load(c, "update", key, environment, value, category, user_key)

\* the row an update leaves: new ciphertext, new updated_at, and the
\* category when one was given (the UPDATE carries a column only when the
\* attribute differs from the loaded one)
UpdatedRow(r, a, now) ==
    [r EXCEPT
       !.encrypted_value = encrypt(create_cipher(StoreSalt, a.user_key),
                                   json_dumps(a.value)),
       !.category = IF a.category # None /\ a.category # a.loaded.category
                    THEN a.category ELSE r.category,
       !.updated_at = now]

\* update, from encrypt to commit: UPDATE ... WHERE id = <loaded row>
update_commit(c) ==
    /\ call[c].pc = "checked" /\ call[c].op = "update"
    /\ clock' = clock + 1
    /\ IF \E r \in table : r.id = call[c].loaded.id
       THEN LET r == CHOOSE q \in table : q.id = call[c].loaded.id IN
            /\ table' = (table \ {r}) \cup {UpdatedRow(r, call[c], clock + 1)}
            /\ ret' = [ret EXCEPT ![c] =
                         Returned("update", UpdatedRow(r, call[c], clock + 1),
                                  call[c].value, TRUE)]
       ELSE /\ table' = table
            /\ ret' = [ret EXCEPT ![c] =
                         Raise("update", "StaleDataError", call[c].key,
                               call[c].environment)]
    /\ call' = [call EXCEPT ![c] = Idle]

delete_query(c) ==
    \E key \in Keys, environment \in EnvironmentArgs :
        load(c, "delete", key, environment, "-", "-", "-")

\* delete, commit: DELETE ... WHERE id = <loaded row>; returns True
delete_commit(c) ==
    /\ call[c].pc = "checked" /\ call[c].op = "delete"
    /\ clock' = clock
    /\ table' = {r \in table : r.id # call[c].loaded.id}
    /\ ret' = [ret EXCEPT ![c] = [NoRet EXCEPT !.status = "ok", !.op = "delete"]]
    /\ call' = [call EXCEPT ![c] = Idle]

\* the steps of the calls that write
StoreStep(c) ==
    \/ create_check(c)
    \/ create_commit(c)
    \/ update_query(c)
    \/ update_commit(c)
    \/ delete_query(c)
    \/ delete_commit(c)

NextStore == \E c \in Threads : StoreStep(c)

\* Ciphertexts an attacker with access to the database file can put in
\* place of token: another body under the old tag, or another tag over the
\* old body.
Tamperings(token) ==
    ({[token EXCEPT !.body = Aes(create_cipher(StoreSalt, u), json_dumps(v))] :
          u \in UserKeys, v \in Values}
     \cup {[token EXCEPT !.hmac = Hmac(create_cipher(StoreSalt, u), token.body)] :
          u \in UserKeys})
    \ {token}

\* token is as encrypt made it
Authentic(token) == token.hmac = Hmac(token.body[2], token.body)

\* The stored ciphertext of one row, so far as encrypt made it, is tampered
\* with.
Tamper ==
    /\ \E r \in table : \E t \in Tamperings(r.encrypted_value) :
           /\ Authentic(r.encrypted_value)
           /\ table' = (table \ {r}) \cup {[r EXCEPT !.encrypted_value = t]}
    /\ UNCHANGED <<clock, call, ret>>

\* One caller at a time, who also reads, and the attacker.
NextCrypto == StoreStep("t1") \/ Read("t1") \/ Tamper

(***************************************************************************)
(* Event bus: core/sse_manager.py, core/models.py, routes/sse_routes.py     *)
(***************************************************************************)

EventKeys == {"db", "api"}

EventCategories == {None, "c1", "c2"}

EventTypes == {"created"}

\* what GET /sse/subscribe can pass for each filter ("" is ?key= )
KeyFilters == {None, "", "db"}

EnvironmentFilters == {None, "prod"}

CategoryFilters == {None, "c1"}

\* SSEManager(max_queue_size=QueueSize), the manager of SpecSSE
QueueSize == 1

\* SSEManager(max_queue_size=FifoQueueSize), the manager of SpecFifo
FifoQueueSize == 2

\* str(uuid.uuid4()) of the subscribe calls, in the order of the calls
SubscriptionIds == <<"s1", "s2">>

\* number of broadcast_event calls: enough to overfill a queue
MaxEvents == QueueSize + 1

\* number of broadcast_event calls of SpecFifo: enough to fill a queue, have
\* an event dropped and put another event behind the drop
FifoEvents == FifoQueueSize + 2

\* truth value of an Optional[str] in an if
Truthy(f) == f # None /\ f # ""

NoEvent == [event_type |-> "-", key |-> "-", environment |-> "-",
            category |-> "-", timestamp |-> 0]

\* SSESubscription.matches
matches(subscription, key, environment, category) ==
    IF Truthy(subscription.key) /\ subscription.key # key
    THEN FALSE
    ELSE IF Truthy(subscription.environment)
             /\ subscription.environment # environment
    THEN FALSE
    ELSE IF Truthy(subscription.category) /\ subscription.category # category
    THEN FALSE
    ELSE TRUE

\* SSEManager._find_matching_subscriptions on registry subs
find_matching_subscriptions(subs, key, environment, category) ==
    {id \in DOMAIN subs : matches(subs[id], key, environment, category)}

\* d[k] += n on a defaultdict(int)
Add(d, k, n) ==
    [v \in DOMAIN d \cup {k} |->
        (IF v \in DOMAIN d THEN d[v] ELSE 0) + (IF v = k THEN n ELSE 0)]

\* if f: index[f].add(id)
IndexAdd(index, f, id) ==
    IF Truthy(f)
    THEN [v \in DOMAIN index \cup {f} |->
             (IF v \in DOMAIN index THEN index[v] ELSE {})
                 \cup (IF v = f THEN {id} ELSE {})]
    ELSE index

\* if f: index[f].discard(id); if not index[f]: del index[f]
IndexDiscard(index, f, id) ==
    IF Truthy(f)
    THEN [v \in {w \in DOMAIN index : w # f \/ index[w] \ {id} # {}} |->
             IF v = f THEN index[v] \ {id} ELSE index[v]]
    ELSE index

SSEStatistics ==
    [total_subscriptions_created |-> 0, active_subscriptions |-> 0,
     total_subscriptions_closed |-> 0, events_sent_by_type |-> <<>>,
     total_events_sent |-> 0, events_dropped_queue_full |-> 0,
     max_queue_size_reached |-> 0, subscriptions_by_key |-> <<>>,
     subscriptions_by_environment |-> <<>>,
     subscriptions_by_category |-> <<>>, subscriptions_wildcard |-> 0,
     average_subscription_duration_seconds |-> 0]

\* SSEManager.__init__(max_queue_size=size)
SSEManager(size) ==
    /\ max_queue_size = size
    /\ subscriptions = <<>>
    /\ by_key = <<>>
    /\ by_environment = <<>>
    /\ by_category = <<>>
    /\ stats = SSEStatistics
    /\ event = NoEvent
    /\ yielded = <<>>
    /\ datetime_now = 0
    /\ stream = <<>>

SSEInit == SSEManager(QueueSize)

\* registry d without id
Without(d, id) == [i \in DOMAIN d \ {id} |-> d[i]]

\* subscribe: the new id is one no subscription had before
subscribe(key, environment, category) ==
    LET subscription_id ==
            SubscriptionIds[stats.total_subscriptions_created + 1] IN
    /\ stats.total_subscriptions_created < Len(SubscriptionIds)
    /\ subscriptions' =
           [i \in DOMAIN subscriptions \cup {subscription_id} |->
               IF i = subscription_id
               THEN [key |-> key, environment |-> environment,
                     category |-> category, queue |-> <<>>,
                     created_at |-> datetime_now]
               ELSE subscriptions[i]]
    /\ by_key' = IndexAdd(by_key, key, subscription_id)
    /\ by_environment' = IndexAdd(by_environment, environment, subscription_id)
    /\ by_category' = IndexAdd(by_category, category, subscription_id)
    /\ stats' = [stats EXCEPT
           !.total_subscriptions_created = @ + 1,
           !.active_subscriptions = @ + 1,
           !.subscriptions_by_key =
               IF Truthy(key) THEN Add(@, key, 1) ELSE @,
           !.subscriptions_by_environment =
               IF Truthy(environment) THEN Add(@, environment, 1) ELSE @,
           !.subscriptions_by_category =
               IF Truthy(category) THEN Add(@, category, 1) ELSE @,
           !.subscriptions_wildcard =
               IF ~Truthy(key) /\ ~Truthy(environment) /\ ~Truthy(category)
               THEN @ + 1 ELSE @]
    /\ event' = event
    /\ yielded' = [i \in DOMAIN yielded \cup {subscription_id} |->
                       IF i = subscription_id THEN 0 ELSE yielded[i]]
    /\ UNCHANGED max_queue_size

\* unsubscribe: an id that is not registered is left at the first test,
\* under the lock; a registered one is taken from the registry and the
\* indices and then from the statistics
unsubscribe(subscription_id) ==
    IF subscription_id \notin DOMAIN subscriptions
    THEN UNCHANGED <<subscriptions, by_key, by_environment, by_category,
                     stats, event, yielded, max_queue_size>>
    ELSE
         /\ LET subscription == subscriptions[subscription_id] IN
            /\ by_key' = IndexDiscard(by_key, subscription.key, subscription_id)
            /\ by_environment' = IndexDiscard(by_environment,
                                              subscription.environment,
                                              subscription_id)
            /\ by_category' = IndexDiscard(by_category, subscription.category,
                                           subscription_id)
            /\ subscriptions' = Without(subscriptions, subscription_id)
            /\ stats' = [stats EXCEPT
                   !.active_subscriptions = @ - 1,
                   !.total_subscriptions_closed = @ + 1,
                   !.subscriptions_by_key =
                       IF Truthy(subscription.key)
                       THEN Add(@, subscription.key, -1) ELSE @,
                   !.subscriptions_by_environment =
                       IF Truthy(subscription.environment)
                       THEN Add(@, subscription.environment, -1) ELSE @,
                   !.subscriptions_by_category =
                       IF Truthy(subscription.category)
                       THEN Add(@, subscription.category, -1) ELSE @,
                   !.subscriptions_wildcard =
                       IF /\ ~Truthy(subscription.key)
                          /\ ~Truthy(subscription.environment)
                          /\ ~Truthy(subscription.category)
                       THEN @ - 1 ELSE @,
                   !.average_subscription_duration_seconds =
                       (@ * (stats.total_subscriptions_closed + 1))
                           \div (stats.total_subscriptions_closed + 1)]
         /\ event' = event
         /\ yielded' = Without(yielded, subscription_id)
         /\ UNCHANGED max_queue_size

\* Queue.full() of an asyncio.Queue(maxsize=max_queue_size)
QueueFull(queue) == Len(queue) >= max_queue_size

\* a put that makes room on a full queue by discarding its oldest event
Enqueued_evicting(subs, ids, ev) ==
    [i \in DOMAIN subs |->
        IF i \in ids
        THEN [subs[i] EXCEPT !.queue = IF QueueFull(@)
                                       THEN Append(Tail(@), ev)
                                       ELSE Append(@, ev)]
        ELSE subs[i]]

\* the registry after put_nowait(ev) on every queue of ids that is not full
Enqueued(subs, ids, ev) ==
    [i \in DOMAIN subs |->
        IF i \in ids /\ ~QueueFull(subs[i].queue)
        THEN [subs[i] EXCEPT !.queue = Append(@, ev)]
        ELSE subs[i]]

Max(a, b) == IF a >= b THEN a ELSE b

\* statistics that count an event as sent before the put is tried
Counted_before_put(st, event_type, sent_count, dropped_count) ==
    IF sent_count > 0 \/ dropped_count > 0
    THEN [st EXCEPT
            !.total_events_sent = @ + sent_count + dropped_count,
            !.events_sent_by_type =
                Add(@, event_type, sent_count + dropped_count),
            !.events_dropped_queue_full = @ + dropped_count,
            !.max_queue_size_reached =
                IF dropped_count > 0 THEN Max(@, max_queue_size) ELSE @]
    ELSE st

\* the statistics after a broadcast that sent and dropped so many
Counted(st, event_type, sent_count, dropped_count) ==
    IF sent_count > 0 \/ dropped_count > 0
    THEN [st EXCEPT
            !.total_events_sent = @ + sent_count,
            !.events_sent_by_type = Add(@, event_type, sent_count),
            !.events_dropped_queue_full = @ + dropped_count,
            !.max_queue_size_reached =
                IF dropped_count > 0 THEN Max(@, max_queue_size) ELSE @]
    ELSE st

broadcast_event(event_type, key, environment, category) ==
    LET ev == [event_type |-> event_type, key |-> key,
               environment |-> environment, category |-> category,
               timestamp |-> event.timestamp + 1]
        matching_ids == find_matching_subscriptions(subscriptions, key,
                                                    environment, category)
        dropped == {i \in matching_ids : QueueFull(subscriptions[i].queue)}
    IN  /\ event' = ev
        /\ subscriptions' = Enqueued(subscriptions, matching_ids, ev)
        /\ stats' = Counted(stats, event_type,
                            Cardinality(matching_ids \ dropped),
                            Cardinality(dropped))
        /\ UNCHANGED <<by_key, by_environment, by_category, yielded,
                       max_queue_size>>

\* a get that takes the newest event off the queue
queue_get_newest(subscription_id) ==
    /\ subscription_id \in DOMAIN subscriptions
    /\ subscriptions[subscription_id].queue # <<>>
    /\ LET queue == subscriptions[subscription_id].queue IN
       /\ subscriptions' = [subscriptions EXCEPT
                               ![subscription_id].queue =
                                   SubSeq(queue, 1, Len(queue) - 1)]
       /\ yielded' = [yielded EXCEPT
                         ![subscription_id] = queue[Len(queue)].timestamp]
    /\ UNCHANGED <<by_key, by_environment, by_category, stats, event,
                   max_queue_size>>

\* event_generator: queue.get() takes the oldest event off the queue and
\* the stream yields it
queue_get(subscription_id) ==
    /\ subscription_id \in DOMAIN subscriptions
    /\ subscriptions[subscription_id].queue # <<>>
    /\ subscriptions' = [subscriptions EXCEPT
                            ![subscription_id].queue = Tail(@)]
    /\ yielded' = [yielded EXCEPT
                      ![subscription_id] =
                          Head(subscriptions[subscription_id].queue).timestamp]
    /\ UNCHANGED <<by_key, by_environment, by_category, stats, event,
                   max_queue_size>>

\* the manager called while the clock stands and no stream is followed
NextSSE ==
    /\ \/ \E key \in KeyFilters, environment \in EnvironmentFilters,
             category \in CategoryFilters :
             subscribe(key, environment, category)
       \/ \E n \in 1..Len(SubscriptionIds) : unsubscribe(SubscriptionIds[n])
       \/ \E event_type \in EventTypes, key \in EventKeys,
             environment \in Environments, category \in EventCategories :
             /\ event.timestamp < MaxEvents
             /\ broadcast_event(event_type, key, environment, category)
       \/ \E n \in 1..Len(SubscriptionIds) : queue_get(SubscriptionIds[n])
    /\ UNCHANGED <<datetime_now, stream>>

\* The event bus with a queue of FifoQueueSize places, subscriptions that
\* filter on the key at most, and events that differ in their key.
NextFifo ==
    /\ \/ \E key \in KeyFilters : subscribe(key, None, None)
       \/ \E n \in 1..Len(SubscriptionIds) : unsubscribe(SubscriptionIds[n])
       \/ \E event_type \in EventTypes, key \in EventKeys :
             /\ event.timestamp < FifoEvents
             /\ broadcast_event(event_type, key, "prod", None)
       \/ \E n \in 1..Len(SubscriptionIds) : queue_get(SubscriptionIds[n])
    /\ UNCHANGED <<datetime_now, stream>>

\* GET /sse/subscribe: the handler subscribes and returns an
\* EventSourceResponse over event_generator(), a generator not yet started
subscribe_to_events(key, environment, category) ==
    LET subscription_id ==
            SubscriptionIds[stats.total_subscriptions_created + 1] IN
    /\ subscribe(key, environment, category)
    /\ stream' = [i \in DOMAIN stream \cup {subscription_id} |->
                     IF i = subscription_id
                     THEN [connection |-> "open", generator |-> "created"]
                     ELSE stream[i]]

\* the response asks the generator for its first item: the body is entered
\* and runs to the yield of the connected message
event_generator_start(id) ==
    /\ id \in DOMAIN stream
    /\ stream[id].connection = "open"
    /\ stream[id].generator = "created"
    /\ stream' = [stream EXCEPT ![id].generator = "running"]
    /\ UNCHANGED <<subscriptions, by_key, by_environment, by_category, stats,
                   event, yielded, max_queue_size>>

\* the loop of event_generator: queue.get() and the yield of the event
event_generator_next(id) ==
    /\ id \in DOMAIN stream
    /\ stream[id].connection = "open"
    /\ stream[id].generator = "running"
    /\ queue_get(id)
    /\ stream' = stream

\* the connection ends: the client disconnects, the response is cancelled
\* or the stream raises
connection_ends(id) ==
    /\ id \in DOMAIN stream
    /\ stream[id].connection = "open"
    /\ stream' = [stream EXCEPT ![id].connection = "ended"]
    /\ UNCHANGED <<subscriptions, by_key, by_environment, by_category, stats,
                   event, yielded, max_queue_size>>

\* the generator body sees the end (is_disconnected(), CancelledError, an
\* exception, or the close of the generator at its yield) and runs
\* finally: await sse_manager.unsubscribe(subscription_id)
event_generator_finally(id) ==
    /\ id \in DOMAIN stream
    /\ stream[id].connection = "ended"
    /\ stream[id].generator = "running"
    /\ unsubscribe(id)
    /\ stream' = [stream EXCEPT ![id].generator = "finished"]

\* a generator that was never started is closed or dropped: its body, the
\* finally clause included, does not run
event_generator_unstarted(id) ==
    /\ id \in DOMAIN stream
    /\ stream[id].connection = "ended"
    /\ stream[id].generator = "created"
    /\ stream' = [stream EXCEPT ![id].generator = "finished"]
    /\ UNCHANGED <<subscriptions, by_key, by_environment, by_category, stats,
                   event, yielded, max_queue_size>>

\* what the server does for the stream of id
StreamSteps(id) ==
    \/ event_generator_start(id)
    \/ event_generator_next(id)
    \/ event_generator_finally(id)
    \/ event_generator_unstarted(id)

\* streams of GET /sse/subscribe and the events published to them
NextStream ==
    /\ \/ \E key \in KeyFilters : subscribe_to_events(key, None, None)
       \/ \E n \in 1..Len(SubscriptionIds) :
             \/ StreamSteps(SubscriptionIds[n])
             \/ connection_ends(SubscriptionIds[n])
       \/ \E event_type \in EventTypes, key \in EventKeys :
             /\ event.timestamp < MaxEvents
             /\ broadcast_event(event_type, key, "prod", None)
             /\ stream' = stream
    /\ UNCHANGED datetime_now

\* seconds the clock of SpecDuration runs for
MaxTime == 3

\* the readings of datetime.now() the sync cycles of a manager are given
MaxSyncTime == 2

\* iterations of a background loop that end with an exception
MaxLoopErrors == 2

\* readings of datetime.now() at the end of a cycle
SyncTimes == 1..MaxSyncTime

\* self.last_sync_time = None
Never == 0

\* a second passes
Tick ==
    /\ datetime_now < MaxTime
    /\ datetime_now' = datetime_now + 1
    /\ UNCHANGED <<subscriptions, by_key, by_environment, by_category, stats,
                   event, yielded, max_queue_size>>

\* subscriptions made and closed while time passes
NextDuration ==
    /\ \/ \E key \in KeyFilters, environment \in EnvironmentFilters :
             subscribe(key, environment, None) /\ datetime_now' = datetime_now
       \/ \E n \in 1..Len(SubscriptionIds) :
             unsubscribe(SubscriptionIds[n]) /\ datetime_now' = datetime_now
       \/ Tick
    /\ UNCHANGED stream

(***************************************************************************)
(* Cluster manager: health checks, broadcasts, federated queries and       *)
(* reconciliation                                                          *)
(***************************************************************************)

\* ClusterMode
REPLICA == "replica"

FEDERATED == "federated"

ClusterMode == {REPLICA, FEDERATED}

\* no call of a broadcast_* or federated_* method has been made
NoCall == [op |-> "none", healthy_nodes |-> <<>>, i |-> 0,
           in_flight |-> FALSE, failed |-> {}, found |-> FALSE,
           all_configs |-> <<>>, state |-> "returned"]

NoResponse == [op |-> "none", status |-> 0]

\* self.nodes.values(), in the order the constructor inserted them
Registry(n) == SelectSeq(NodeSeq, LAMBDA p : p \in DOMAIN nodes[n])

\* [n for n in self.nodes.values() if n.is_healthy]
healthy_nodes(n) == SelectSeq(Registry(n), LAMBDA p : nodes[n][p])

\* What becomes of a request to a node: an up node answers with status 200,
\* an erring node with an error status, and a request to a down node ends
\* with an exception of httpx (connection error, timeout).
NodeStates == {"up", "erring", "down"}

Outcome(p) ==
    CASE reachable[p] = "up" -> "200"
      [] reachable[p] = "erring" -> "error_status"
      [] reachable[p] = "down" -> "exception"

\* the node serves the requests of its clients
Up(n) == reachable[n] = "up"

\* the tasks start() creates
Tasks(mode) == IF mode = REPLICA THEN {"health", "sync"} ELSE {"health"}

\* host:port under which each node is reached
Address ==
    [n \in Nodes |->
        CASE n = "node-a" -> "node-a:9000"
          [] n = "node-b" -> "node-b:9000"
          [] n = "node-c" -> "node-c:9000"]

\* what OSC_CLUSTER_NODE_ID of node n can be: a name of its own (the
\* default is node-<port>) or the address of the node
NodeIds(n) == {n, Address[n]}

\* what OSC_CLUSTER_NODES can list: addresses of nodes, and "" for a stray
\* comma
ClusterNodes == SUBSET ({Address[n] : n \in Nodes} \cup {""})

\* __init__, the loop over cluster_nodes: the nodes that get an entry
ParseClusterNodes(node_id, cluster_nodes) ==
    {p \in Nodes : /\ Address[p] \in cluster_nodes
                   /\ Address[p] # ""
                   /\ Address[p] # node_id}

\* ClusterManager.__init__ on every node, registry[n] being the nodes that
\* have an entry in self.nodes of n; no call made and no request served
\* yet; with started the tasks of start() are running
ClusterManagerInit(registry, mode, started) ==
    /\ cluster_mode = mode
    /\ manager = [n \in Nodes |-> IF started THEN "started" ELSE "new"]
    /\ background_tasks = [n \in Nodes |->
                              IF started THEN Tasks(mode) ELSE {}]
    /\ nodes = [n \in Nodes |-> [p \in registry[n] |-> TRUE]]
    /\ reachable = [n \in Nodes |-> "up"]
    /\ probed = [n \in Nodes |-> [p \in DOMAIN nodes[n] |-> "never"]]
    /\ fanout = [n \in Nodes |-> NoCall]
    /\ health = [n \in Nodes |->
                    [pc |-> IF started THEN "sleep" ELSE "none", i |-> 0,
                     errors |-> 0]]
    /\ sync = [n \in Nodes |->
                  [pc |-> IF started /\ mode = REPLICA THEN "sleep"
                                                       ELSE "none",
                   healthy_nodes |-> <<>>, i |-> 0, merged |-> {},
                   sync_in_progress |-> FALSE, last_sync_time |-> Never,
                   errors |-> 0]]
    /\ configs = [n \in Nodes |-> {}]
    /\ response = [n \in Nodes |-> NoResponse]

\* the nodes of cluster, each configured with the others as its peers
ClusterInit(cluster, mode, started) ==
    ClusterManagerInit([n \in Nodes |->
                           IF n \in cluster THEN cluster \ {n} ELSE {}],
                       mode, started)

\* a node goes down, starts to answer with errors, or comes up again
Turn(p, state) ==
    /\ reachable[p] # state
    /\ reachable' = [reachable EXCEPT ![p] = state]

\* _health_check_loop: asyncio.sleep(health_check_interval) is over and
\* _check_nodes_health starts
health_check_loop(n) ==
    /\ manager[n] = "started"
    /\ health[n].pc = "sleep"
    /\ Len(Registry(n)) > 0
    /\ health' = [health EXCEPT ![n].pc = "check", ![n].i = 1]

\* a probe that takes any answer for health
check_nodes_health_any_answer(n) ==
    /\ manager[n] = "started"
    /\ health[n].pc = "check"
    /\ LET p == Registry(n)[health[n].i] IN
       LET outcome == Outcome(p) IN
          /\ probed' = [probed EXCEPT ![n][p] = outcome]
          /\ nodes' = [nodes EXCEPT ![n][p] = (outcome # "exception")]
    /\ health' = [health EXCEPT ![n] =
                     IF @.i < Len(Registry(n))
                     THEN [@ EXCEPT !.pc = "check", !.i = @ + 1]
                     ELSE [@ EXCEPT !.pc = "sleep", !.i = 0]]

\* _check_nodes_health: one pass of its loop, the GET /cluster/health of the
\* next node of the registry and what its answer does to is_healthy
check_nodes_health(n) ==
    /\ manager[n] = "started"
    /\ health[n].pc = "check"
    /\ LET p == Registry(n)[health[n].i] IN
       LET outcome == Outcome(p) IN
          /\ probed' = [probed EXCEPT ![n][p] = outcome]
          /\ nodes' = [nodes EXCEPT ![n][p] = (outcome = "200")]
    /\ health' = [health EXCEPT ![n] =
                     IF @.i < Len(Registry(n))
                     THEN [@ EXCEPT !.pc = "check", !.i = @ + 1]
                     ELSE [@ EXCEPT !.pc = "sleep", !.i = 0]]

Broadcasts == {"broadcast_create", "broadcast_update", "broadcast_delete"}

FederatedQueries == {"federated_read", "federated_list"}

\* the call of op on node n: the mode check and the healthy_nodes it takes
Call(n, op, mode) ==
    /\ fanout[n].state = "returned"
    /\ fanout' = [fanout EXCEPT ![n] =
           IF cluster_mode # mode
           THEN [NoCall EXCEPT !.op = op]
           ELSE [op |-> op, healthy_nodes |-> healthy_nodes(n), i |-> 1,
                 in_flight |-> FALSE, failed |-> {}, found |-> FALSE,
                 all_configs |-> <<>>, state |-> "running"]]

\* broadcast_create, broadcast_update, broadcast_delete
broadcast(n, op) == Call(n, op, REPLICA)

\* federated_read, federated_list
federated(n, op) == Call(n, op, FEDERATED)

\* GET /configs on node p as federated_list gets it: the rows of the node
\* in the order of their ids
list_all(p) ==
    [i \in 1..Cardinality(configs[p]) |->
        CHOOSE r \in configs[p] : r.id = i]

\* keys of the entries of a list
SeenKeys(all_configs) ==
    {all_configs[i].key : i \in 1..Len(all_configs)}

\* a merge that takes an entry for a duplicate when its environment is new
RECURSIVE Merged_by_pair(_, _)
Merged_by_pair(all_configs, answered) ==
    IF answered = <<>>
    THEN all_configs
    ELSE Merged_by_pair(
             IF \E i \in 1..Len(all_configs) :
                    /\ all_configs[i].key = Head(answered).key
                    /\ all_configs[i].environment = Head(answered).environment
             THEN all_configs
             ELSE Append(all_configs, Head(answered)),
             Tail(answered))

\* federated_list, the loop over the configs of one answer: an entry is
\* appended unless its key is in seen_keys
RECURSIVE Merged(_, _)
Merged(all_configs, answered) ==
    IF answered = <<>>
    THEN all_configs
    ELSE Merged(
             IF Head(answered).key \in SeenKeys(all_configs)
             THEN all_configs
             ELSE Append(all_configs, Head(answered)),
             Tail(answered))

\* the loop of a call sends the request to its next node
request(n) ==
    /\ fanout[n].state = "running"
    /\ ~fanout[n].in_flight
    /\ fanout[n].i <= Len(fanout[n].healthy_nodes)
    /\ fanout' = [fanout EXCEPT ![n].in_flight = TRUE]

\* a loop without try/except around its request
answer_unguarded(n) ==
    /\ fanout[n].in_flight
    /\ LET p == fanout[n].healthy_nodes[fanout[n].i] IN
       LET outcome == Outcome(p) IN
          fanout' = [fanout EXCEPT ![n] =
              IF outcome = "exception"
              THEN [@ EXCEPT !.in_flight = FALSE, !.state = "raised"]
              ELSE IF @.op = "federated_read" /\ outcome = "200"
              THEN [@ EXCEPT !.in_flight = FALSE, !.found = TRUE,
                             !.state = "returned"]
              ELSE [@ EXCEPT !.in_flight = FALSE, !.i = @ + 1]]

\* a federated_read that notes a hit and goes on to the next node
answer_keeps_asking(n) ==
    /\ fanout[n].in_flight
    /\ LET p == fanout[n].healthy_nodes[fanout[n].i] IN
       LET outcome == Outcome(p) IN
          fanout' = [fanout EXCEPT ![n] =
              IF outcome = "exception"
              THEN [@ EXCEPT !.in_flight = FALSE, !.i = @ + 1,
                             !.failed = @ \cup {p}]
              ELSE IF @.op = "federated_read" /\ outcome = "200"
              THEN [@ EXCEPT !.in_flight = FALSE, !.found = TRUE,
                             !.i = @ + 1]
              ELSE [@ EXCEPT !.in_flight = FALSE, !.i = @ + 1]]

\* the request in flight ends: an exception is caught and logged, a
\* federated_read returns on status 200, a federated_list merges the list
\* of an answer with status 200, every other answer lets the loop go on
\* with the next node
answer(n) ==
    /\ fanout[n].in_flight
    /\ LET p == fanout[n].healthy_nodes[fanout[n].i] IN
       LET outcome == Outcome(p) IN
          fanout' = [fanout EXCEPT ![n] =
              IF outcome = "exception"
              THEN [@ EXCEPT !.in_flight = FALSE, !.i = @ + 1,
                             !.failed = @ \cup {p}]
              ELSE IF @.op = "federated_read" /\ outcome = "200"
              THEN [@ EXCEPT !.in_flight = FALSE, !.found = TRUE,
                             !.state = "returned"]
              ELSE IF @.op = "federated_list" /\ outcome = "200"
              THEN [@ EXCEPT !.in_flight = FALSE, !.i = @ + 1,
                             !.all_configs = Merged(@, list_all(p))]
              ELSE [@ EXCEPT !.in_flight = FALSE, !.i = @ + 1]]

\* the loop of a call is through and the call returns
return(n) ==
    /\ fanout[n].state = "running"
    /\ fanout[n].i > Len(fanout[n].healthy_nodes)
    /\ fanout' = [fanout EXCEPT ![n].state = "returned"]

\* GET /cluster/configs on node p: key and metadata of every row, without
\* the encrypted value
cluster_list_configs(p) ==
    {[key |-> r.key, environment |-> r.environment,
      updated_at |-> r.updated_at] : r \in configs[p]}

\* _merge_configurations(remote_configs, source_node): the body is a
\* docstring and a comment, nothing is stored
merge_configurations(local, remote_configs) == local

\* a call that starts a cycle whatever sync_in_progress says
sync_configurations_begin_unguarded(n) ==
    IF Len(healthy_nodes(n)) = 0
    THEN UNCHANGED sync
    ELSE sync' = [sync EXCEPT ![n] =
                     [pc |-> "pull", i |-> 1,
                      healthy_nodes |-> healthy_nodes(n), merged |-> {},
                      sync_in_progress |-> TRUE,
                      last_sync_time |-> @.last_sync_time,
                      errors |-> @.errors]]

\* _sync_configurations up to its first request: with sync_in_progress set
\* it returns; otherwise it sets the flag and takes its healthy_nodes, and
\* with none of them it returns through the finally clause, which clears
\* the flag again
sync_configurations_begin(n) ==
    IF sync[n].sync_in_progress \/ Len(healthy_nodes(n)) = 0
    THEN UNCHANGED sync
    ELSE sync' = [sync EXCEPT ![n] =
                     [pc |-> "pull", i |-> 1,
                      healthy_nodes |-> healthy_nodes(n), merged |-> {},
                      sync_in_progress |-> TRUE,
                      last_sync_time |-> @.last_sync_time,
                      errors |-> @.errors]]

\* _sync_loop: asyncio.sleep(sync_interval) is over; in REPLICA mode
\* _sync_configurations is called
sync_loop(n) ==
    /\ manager[n] = "started"
    /\ sync[n].pc = "sleep"
    /\ cluster_mode = REPLICA
    /\ sync_configurations_begin(n)

\* _sync_configurations is called while the cycle of _sync_loop is at one
\* of its requests (start() called once more creates a second _sync_loop
\* task, whose sleep ends at any time)
sync_loop_again(n) ==
    /\ manager[n] = "started"
    /\ sync[n].pc = "pull"
    /\ cluster_mode = REPLICA
    /\ sync_configurations_begin(n)

\* _sync_configurations: one pass of its loop, the GET /cluster/configs of
\* the next healthy node and the merge of a 200 answer; merged keeps the
\* nodes whose answer was merged in the cycle; after the last pass
\* last_sync_time takes the reading now of datetime.now() and the finally
\* clause clears sync_in_progress
sync_configurations(n, now) ==
    /\ manager[n] = "started"
    /\ sync[n].pc = "pull"
    /\ LET p == sync[n].healthy_nodes[sync[n].i]
           last == sync[n].i = Len(sync[n].healthy_nodes)
           outcome == Outcome(p)
       IN     /\ configs' = [configs EXCEPT ![n] =
                     IF outcome = "200"
                     THEN merge_configurations(@, cluster_list_configs(p))
                     ELSE @]
              /\ sync' = [sync EXCEPT
                     ![n].merged = IF outcome = "200" THEN @ \cup {p} ELSE @,
                     ![n].i = IF last THEN 0 ELSE @ + 1,
                     ![n].pc = IF last THEN "sleep" ELSE "pull",
                     ![n].healthy_nodes = IF last THEN <<>> ELSE @,
                     ![n].last_sync_time = IF last THEN now ELSE @,
                     ![n].sync_in_progress = ~last]

(***************************************************************************)
(* The write handlers of routes/config_routes.py on a node of a cluster    *)
(***************************************************************************)

\* POST /configs on node n.  manager.create raises ValueError for a pair
\* that exists (400) and commits the row otherwise; then, in REPLICA mode,
\* the call cluster_manager.broadcast_create(key, value, category,
\* environment, x_user_key) passes one argument more than the method
\* takes: TypeError, no task is created, and the handler answers 500.
create_configuration(n, key, environment, value) ==
    /\ Up(n)
    /\ clock < MaxClock
    /\ IF \E r \in configs[n] : r.key = key /\ r.environment = environment
       THEN /\ response' = [response EXCEPT ![n] =
                   [op |-> "create", status |-> 400]]
            /\ UNCHANGED <<configs, clock>>
       ELSE /\ clock' = clock + 1
            /\ configs' = [configs EXCEPT ![n] = @ \cup
                   {[id |-> Cardinality(configs[n]) + 1, key |-> key,
                     environment |-> environment, value |-> value,
                     updated_at |-> clock']}]
            /\ response' = [response EXCEPT ![n] =
                   [op |-> "create",
                    status |-> IF cluster_mode = REPLICA THEN 500 ELSE 201]]

\* PUT /configs/{key} on node n: ConfigUpdate has no field environment, so
\* config.environment raises AttributeError before manager.update is
\* called, and the handler answers 500.
update_configuration(n, key) ==
    /\ Up(n)
    /\ response' = [response EXCEPT ![n] =
           [op |-> "update", status |-> 500]]
    /\ UNCHANGED <<configs, clock>>

\* DELETE /configs/{key} on node n: manager.delete(key=key) lacks the
\* required argument environment, TypeError, and the handler answers 500.
delete_configuration(n, key) ==
    /\ Up(n)
    /\ response' = [response EXCEPT ![n] =
           [op |-> "delete", status |-> 500]]
    /\ UNCHANGED <<configs, clock>>

\* start(): create_task(_health_check_loop()) and, in REPLICA mode,
\* create_task(_sync_loop()); each task is added to _background_tasks
start(n) ==
    /\ manager[n] = "new"
    /\ manager' = [manager EXCEPT ![n] = "started"]
    /\ background_tasks' = [background_tasks EXCEPT
                               ![n] = Tasks(cluster_mode)]
    /\ health' = [health EXCEPT ![n].pc = "sleep"]
    /\ sync' = [sync EXCEPT
                   ![n].pc = IF cluster_mode = REPLICA THEN "sleep" ELSE @]

\* stop(), up to its await: task.cancel() for every background task
stop(n) ==
    /\ manager[n] = "started"
    /\ manager' = [manager EXCEPT ![n] = "stopping"]
    /\ UNCHANGED <<background_tasks, health, sync>>

\* a cancelled task is resumed: its await raises CancelledError, the loop
\* breaks, and the done callback discards the task from _background_tasks;
\* in the middle of a cycle the error leaves _sync_configurations through
\* its finally clause
cancelled(n, task) ==
    /\ manager[n] = "stopping"
    /\ task \in background_tasks[n]
    /\ background_tasks' = [background_tasks EXCEPT ![n] = @ \ {task}]
    /\ IF task = "health"
       THEN /\ health' = [health EXCEPT ![n].pc = "done", ![n].i = 0]
            /\ UNCHANGED sync
       ELSE /\ sync' = [sync EXCEPT ![n].pc = "done", ![n].i = 0,
                                    ![n].healthy_nodes = <<>>,
                                    ![n].sync_in_progress = FALSE]
            /\ UNCHANGED health
    /\ UNCHANGED manager

\* a stop() that does not await the tasks it cancelled
stop_return_at_once(n) ==
    /\ manager[n] = "stopping"
    /\ manager' = [manager EXCEPT ![n] = "stopped"]
    /\ UNCHANGED <<background_tasks, health, sync>>

\* stop(): asyncio.gather(*self._background_tasks, return_exceptions=True)
\* is through when every task it was given is done
stop_return(n) ==
    /\ manager[n] = "stopping"
    /\ health[n].pc \in {"none", "done"}
    /\ sync[n].pc \in {"none", "done"}
    /\ manager' = [manager EXCEPT ![n] = "stopped"]
    /\ UNCHANGED <<background_tasks, health, sync>>

\* the manager whose calls SpecClusterManager follows; the other nodes are
\* its peers
ManagerNode == "node-a"

\* the two-node cluster of SpecCluster
Replicas == {"node-a", "node-b"}

HealthSteps(n) ==
    /\ \/ health_check_loop(n) /\ UNCHANGED <<nodes, probed>>
       \/ check_nodes_health(n)
    /\ UNCHANGED <<cluster_mode, reachable, fanout, sync, configs, response,
                   clock, manager, background_tasks>>

\* a loop that an exception of an iteration ends
health_check_error_ends_loop(n) ==
    /\ manager[n] = "started"
    /\ health[n].pc = "check"
    /\ health[n].errors < MaxLoopErrors
    /\ health' = [health EXCEPT ![n].pc = "done", ![n].i = 0,
                                ![n].errors = @ + 1]

\* _health_check_loop: _check_nodes_health raises outside the try of its
\* loop over the nodes (the httpx.AsyncClient cannot be made or closed);
\* the except clause of the loop logs health_check_error and the loop goes
\* on with its next sleep
health_check_error(n) ==
    /\ manager[n] = "started"
    /\ health[n].pc = "check"
    /\ health[n].errors < MaxLoopErrors
    /\ health' = [health EXCEPT ![n].pc = "sleep", ![n].i = 0,
                                ![n].errors = @ + 1]

\* _sync_loop: _sync_configurations raises outside the try of its loop
\* over the healthy nodes; its finally clause clears sync_in_progress, the
\* except clause of the loop logs sync_loop_error and the loop goes on with
\* its next sleep
sync_loop_error(n) ==
    /\ manager[n] = "started"
    /\ sync[n].pc = "pull"
    /\ sync[n].errors < MaxLoopErrors
    /\ sync' = [sync EXCEPT ![n].pc = "sleep", ![n].i = 0,
                            ![n].healthy_nodes = <<>>,
                            ![n].sync_in_progress = FALSE,
                            ![n].errors = @ + 1]

ErrorSteps(n) ==
    /\ \/ health_check_error(n) /\ UNCHANGED sync
       \/ sync_loop_error(n) /\ UNCHANGED health
    /\ UNCHANGED <<cluster_mode, nodes, reachable, probed, fanout, configs,
                   response, clock, manager, background_tasks>>

\* the steps of the sync task of node n, its cycles ending at the readings
\* times of the clock
SyncStepsAt(n, times) ==
    /\ \/ sync_loop(n) /\ UNCHANGED configs
       \/ sync_loop_again(n) /\ UNCHANGED configs
       \/ \E now \in times : sync_configurations(n, now)
    /\ UNCHANGED <<cluster_mode, nodes, reachable, probed, fanout, health,
                   response, clock, manager, background_tasks>>

\* the same with a clock that shows one reading
SyncSteps(n) == SyncStepsAt(n, {1})

FanoutSteps(n) ==
    /\ \/ \E op \in Broadcasts : broadcast(n, op)
       \/ \E op \in FederatedQueries : federated(n, op)
       \/ request(n)
       \/ answer(n)
       \/ return(n)
    /\ UNCHANGED <<cluster_mode, nodes, reachable, probed, health, sync,
                   configs, response, clock, manager, background_tasks>>

WriteSteps(n) ==
    /\ \/ \E key \in Keys, environment \in Environments :
             create_configuration(n, key, environment, "v1")
       \/ \E key \in Keys : update_configuration(n, key)
       \/ \E key \in Keys : delete_configuration(n, key)
    /\ UNCHANGED <<cluster_mode, nodes, reachable, probed, fanout, health,
                   sync, manager, background_tasks>>

Network(cluster, states) ==
    /\ \E p \in cluster, state \in states : Turn(p, state)
    /\ UNCHANGED <<cluster_mode, nodes, probed, fanout, health, sync,
                   configs, response, clock, manager, background_tasks>>

LifecycleSteps(n) ==
    /\ \/ start(n)
       \/ stop(n)
       \/ \E task \in {"health", "sync"} : cancelled(n, task)
       \/ stop_return(n)
    /\ UNCHANGED <<cluster_mode, nodes, reachable, probed, fanout, configs,
                   response, clock>>

\* one manager from its construction to the end of stop()
NextLifecycle ==
    \/ LifecycleSteps(ManagerNode)
    \/ HealthSteps(ManagerNode)
    \/ SyncStepsAt(ManagerNode, SyncTimes)
    \/ Network(Nodes \ {ManagerNode}, {"up", "down"})

\* one manager whose loop iterations can raise
NextLoops ==
    \/ LifecycleSteps(ManagerNode)
    \/ HealthSteps(ManagerNode)
    \/ SyncSteps(ManagerNode)
    \/ ErrorSteps(ManagerNode)
    \/ Network(Nodes \ {ManagerNode}, {"up", "down"})

\* keys of the entries the peers of SpecFederatedList hold
ListKeys == {"db", "api"}

\* the environments the clients of a peer write to, and the value they
\* store: node-b serves every environment, node-c the development one
PeerEnvironments(p) == IF p = "node-b" THEN Environments ELSE {"dev"}

PeerValue(p) == IF p = "node-b" THEN "v1" ELSE "v2"

\* federated_list calls of one manager in a FEDERATED cluster whose peers
\* take creates of their own clients
NextFederatedList ==
    \/ /\ \/ federated(ManagerNode, "federated_list")
          \/ request(ManagerNode)
          \/ answer(ManagerNode)
          \/ return(ManagerNode)
       /\ UNCHANGED <<cluster_mode, nodes, reachable, probed, health, sync,
                      configs, response, clock, manager, background_tasks>>
    \/ HealthSteps(ManagerNode)
    \/ /\ \E p \in Nodes \ {ManagerNode}, key \in ListKeys :
             \E environment \in PeerEnvironments(p) :
                create_configuration(p, key, environment, PeerValue(p))
       /\ UNCHANGED <<cluster_mode, nodes, reachable, probed, fanout, health,
                      sync, manager, background_tasks>>
    \/ Network(Nodes \ {ManagerNode}, {"up", "down"})

\* the loops of one manager, whatever its registry holds
NextRegistry ==
    \/ HealthSteps(ManagerNode)
    \/ SyncSteps(ManagerNode)
    \/ Network(Nodes, {"up", "down"})

NextClusterManager ==
    \/ HealthSteps(ManagerNode)
    \/ SyncSteps(ManagerNode)
    \/ FanoutSteps(ManagerNode)
    \/ Network(Nodes \ {ManagerNode}, NodeStates)

NextCluster ==
    \/ \E n \in Replicas : HealthSteps(n) \/ SyncSteps(n) \/ WriteSteps(n)
    \/ Network(Replicas, {"up", "down"})

(***************************************************************************)
(* The Python client: OpenSecureConfClient and SSEClient                   *)
(***************************************************************************)

\* the calls of OpenSecureConfClient that send one request
DirectCalls == {"create", "read", "update", "delete", "list_all",
                "get_service_info"}

ClusterCalls == {"get_cluster_status", "get_cluster_health"}

ApiCalls == DirectCalls \cup ClusterCalls \cup {"ping", "exists"}

\* status codes of an answer
StatusCodes == {200, 201, 204, 400, 401, 403, 404, 409, 422, 500, 503}

\* status_forcelist of the Retry strategy
StatusForcelist == {429, 500, 502, 503, 504}

\* The body of an answer: a JSON object whose detail says the configuration
\* already exists, one with another detail string, one without detail, one
\* whose detail is a list, a JSON value that is no object, a text that is
\* no JSON, and no content.
Bodies == {"object_exists", "object_detail", "object", "object_list",
           "array", "text", "empty"}

\* response.json() raises (JSONDecodeError, a ValueError)
NotJson(body) == body \in {"text", "empty"}

\* response.json() has no method get
NotObject(body) == body = "array"

Raised(class) == [kind |-> "raised", class |-> class]

Value(v) == [kind |-> "returned", value |-> v]

\* the exception classes of the client and the class each one extends
Base(class) ==
    CASE class = "OpenSecureConfError" -> "Exception"
      [] class \in {"AuthenticationError", "ConfigurationNotFoundError",
                    "ConfigurationExistsError", "ClusterError"}
            -> "OpenSecureConfError"
      [] OTHER -> "Exception"

\* isinstance(e, class) for an exception e of class c
IsA(c, class) == c = class \/ Base(c) = class \/ class = "Exception"

\* response.json().get("detail", default) and what the branch of a status
\* raises with it
Detail(body, class) ==
    IF NotJson(body) THEN Raised("OpenSecureConfError")
    ELSE IF NotObject(body) THEN Raised("AttributeError")
    ELSE Raised(class)

\* _make_request from the answer on: the branches on response.status_code
\* and the except clauses that turn a RequestException and a ValueError
\* into OpenSecureConfError
HandleStatus(status, body) ==
    CASE status \in {401, 403} -> Raised("AuthenticationError")
      [] status = 404 -> Detail(body, "ConfigurationNotFoundError")
      [] status = 400 ->
            IF NotJson(body) THEN Raised("OpenSecureConfError")
            ELSE IF NotObject(body) \/ body = "object_list"
            THEN Raised("AttributeError")
            ELSE IF body = "object_exists"
            THEN Raised("ConfigurationExistsError")
            ELSE Raised("OpenSecureConfError")
      [] status >= 400 -> Detail(body, "OpenSecureConfError")
      [] status = 204 \/ body = "empty" -> Value("None")
      [] OTHER -> IF NotJson(body) THEN Raised("OpenSecureConfError")
                  ELSE Value(body)

\* _make_request: with the retry strategy mounted an answer whose status is
\* in status_forcelist ends in RetryError, a RequestException
make_request(enable_retry, status, body) ==
    IF enable_retry /\ status \in StatusForcelist
    THEN Raised("OpenSecureConfError")
    ELSE HandleStatus(status, body)

\* what a call of the client returns or raises for an answer
CallResult(name, enable_retry, status, body) ==
    LET r == make_request(enable_retry, status, body) IN
    CASE name \in ClusterCalls ->
            IF r.kind = "raised" /\ IsA(r.class, "OpenSecureConfError")
            THEN Raised("ClusterError") ELSE r
      [] name = "ping" ->
            IF r.kind = "raised" THEN Value("False") ELSE Value("True")
      [] name = "exists" ->
            IF r = Raised("ConfigurationNotFoundError") THEN Value("False")
            ELSE IF r.kind = "raised" THEN r
            ELSE Value("True")
      [] OTHER -> r

NoApiCall == [name |-> "none", enable_retry |-> FALSE, status |-> 0,
              body |-> "empty", result |-> Value("None")]

\* one call of the client and the answer of the server to its request
ApiCall(name, enable_retry, status, body) ==
    /\ api' = [name |-> name, enable_retry |-> enable_retry,
               status |-> status, body |-> body,
               result |-> CallResult(name, enable_retry, status, body)]
    /\ UNCHANGED sse_client

\* reconnect_backoff of the SSEClient
ReconnectBackoff == 2

\* max_reconnect_delay of the SSEClient, in seconds
MaxReconnectDelay == 4

\* the failures a connection loop without a limit is followed through
MaxFailures == 4

\* SSEClient.__init__: the reconnection parameters, no connection task, the
\* flags _is_running and _should_stop False.  The fields reconnect_attempts
\* and current_delay are the local variables of _connection_loop, and task
\* is the position of the connection task: none, listen (_listen opens the
\* stream), connected (status 200, the lines of the stream are read),
\* sleep (asyncio.sleep(current_delay)), done (the loop has ended or was
\* cancelled), raised (the loop has raised SSEError).
SSEClient(auto_reconnect, max_reconnect_attempts, reconnect_delay) ==
    [auto_reconnect |-> auto_reconnect,
     max_reconnect_attempts |-> max_reconnect_attempts,
     reconnect_delay |-> reconnect_delay,
     is_running |-> FALSE,
     should_stop |-> FALSE,
     task |-> "none",
     reconnect_attempts |-> 0,
     current_delay |-> reconnect_delay,
     errors |-> 0,
     warned |-> FALSE]

ClientInit ==
    /\ api = NoApiCall
    /\ sse_client = SSEClient(TRUE, -1, 1)

Min(a, b) == IF a < b THEN a ELSE b

\* connect(): a client that is running logs a warning and returns; any
\* other client starts a connection task
connect ==
    /\ sse_client' =
          IF sse_client.is_running
          THEN [sse_client EXCEPT !.warned = TRUE]
          ELSE [sse_client EXCEPT !.should_stop = FALSE,
                                  !.is_running = TRUE,
                                  !.task = "listen",
                                  !.reconnect_attempts = 0,
                                  !.current_delay = sse_client.reconnect_delay,
                                  !.warned = FALSE]
    /\ UNCHANGED api

\* disconnect(): the flags are set and a connection task that is not done
\* is cancelled and awaited
disconnect ==
    /\ sse_client' = [sse_client EXCEPT
                         !.should_stop = TRUE,
                         !.is_running = FALSE,
                         !.task = IF @ \in {"none", "raised"} THEN @
                                                             ELSE "done"]
    /\ UNCHANGED api

\* is_connected()
is_connected == sse_client.is_running /\ ~sse_client.should_stop

\* _connection_loop, except Exception: the error is counted; without
\* auto_reconnect SSEError is raised; at the limit of the attempts the loop
\* ends; otherwise the attempt is counted and the loop sleeps for
\* current_delay
Failed(c) ==
    IF ~c.auto_reconnect
    THEN [c EXCEPT !.errors = @ + 1, !.task = "raised"]
    ELSE IF /\ c.max_reconnect_attempts >= 0
            /\ c.reconnect_attempts >= c.max_reconnect_attempts
    THEN [c EXCEPT !.errors = @ + 1, !.task = "done"]
    ELSE [c EXCEPT !.errors = @ + 1, !.task = "sleep",
                   !.reconnect_attempts = @ + 1]

\* _listen raises before the stream is read: the connection fails, or the
\* answer has another status than 200 (SSEError)
listen_fails ==
    /\ sse_client.task = "listen"
    /\ sse_client.errors < MaxFailures
    /\ sse_client' = Failed(sse_client)
    /\ UNCHANGED api

\* _listen gets status 200 and reads the lines of the stream
listen_connects ==
    /\ sse_client.task = "listen"
    /\ sse_client' = [sse_client EXCEPT !.task = "connected"]
    /\ UNCHANGED api

\* the stream ends and _listen returns: the loop sets reconnect_attempts
\* and current_delay back and listens again at once
stream_ends ==
    /\ sse_client.task = "connected"
    /\ sse_client' = [sse_client EXCEPT
                         !.reconnect_attempts = 0,
                         !.current_delay = sse_client.reconnect_delay,
                         !.task = "listen"]
    /\ UNCHANGED api

\* reading the stream raises (the connection breaks)
stream_breaks ==
    /\ sse_client.task = "connected"
    /\ sse_client.errors < MaxFailures
    /\ sse_client' = Failed(sse_client)
    /\ UNCHANGED api

\* asyncio.sleep(current_delay) is over: current_delay is multiplied by
\* reconnect_backoff and capped, and the loop listens again
sleep_over ==
    /\ sse_client.task = "sleep"
    /\ sse_client' = [sse_client EXCEPT
                         !.current_delay =
                             Min(@ * ReconnectBackoff, MaxReconnectDelay),
                         !.task = "listen"]
    /\ UNCHANGED api

NextApi ==
    \E name \in ApiCalls, enable_retry \in BOOLEAN, status \in StatusCodes,
       body \in Bodies : ApiCall(name, enable_retry, status, body)

NextSSEClient ==
    \/ connect
    \/ disconnect
    \/ listen_fails
    \/ listen_connects
    \/ stream_ends
    \/ stream_breaks
    \/ sleep_over

NextSalt ==
    /\ \E n \in Nodes :
          \/ SyncStart(n)
          \/ Distribute(n)
          \/ Fetch(n)
          \/ Elect(n)
          \/ Grace(n)
          \/ BootPush(n)
          \/ PollSleep(n)
          \/ PollGet(n)
          \/ load_or_create_salt(n)
    /\ UNCHANGED <<receiving, pushed>>

\* the bootstrap with the steps of a push: the request and the check of
\* the handler, then the write of the handler
NextPush ==
    \/ /\ \E n \in Nodes :
             \/ SyncStart(n)
             \/ Fetch(n)
             \/ Elect(n)
             \/ Grace(n)
             \/ PollSleep(n)
             \/ PollGet(n)
             \/ load_or_create_salt(n)
       /\ UNCHANGED <<receiving, pushed>>
    \/ \E n \in Nodes : post_cluster_salt(n)
    \/ \E n \in Nodes : receive_cluster_salt(n)

Init ==
    /\ SaltInit /\ StoreInit /\ SSEInit /\ ClientInit
    /\ ClusterInit(Nodes, REPLICA, TRUE)

\* the store runs on one node whose salt file exists
InitStore == Init /\ saltFile = [n \in Nodes |-> ProvisionedSalt]

SpecSalt ==
    Init /\ [][NextSalt /\ UNCHANGED <<clientVars, storeVars, sseVars, clusterVars>>]_vars

SpecPush ==
    Init /\ [][NextPush /\ UNCHANGED <<clientVars, storeVars, sseVars, clusterVars>>]_vars

SpecApi ==
    InitStore
        /\ [][NextApi /\ UNCHANGED <<saltVars, storeVars, sseVars,
                                     clusterVars>>]_vars

\* an SSEClient built with any of the reconnection parameters
InitSSEClient ==
    /\ SaltInit /\ saltFile = [n \in Nodes |-> ProvisionedSalt]
    /\ StoreInit /\ SSEInit
    /\ ClusterInit(Nodes, REPLICA, TRUE)
    /\ api = NoApiCall
    /\ \E auto_reconnect \in BOOLEAN, max_reconnect_attempts \in -1..2,
          reconnect_delay \in 1..2 :
          sse_client = SSEClient(auto_reconnect, max_reconnect_attempts,
                                 reconnect_delay)

SpecSSEClient ==
    InitSSEClient
        /\ [][NextSSEClient /\ UNCHANGED <<saltVars, storeVars, sseVars,
                                           clusterVars>>]_vars

SpecStore ==
    InitStore
        /\ [][NextStore /\ UNCHANGED <<clientVars, saltVars, sseVars, clusterVars>>]_vars

\* the store as an earlier create('db', v1, None, 'prod') left it
StoredRow ==
    NewRow({}, [key |-> "db", value |-> "v1", category |-> None,
                environment |-> "prod", user_key |-> "p1"], 0)

InitPopulated ==
    /\ SaltInit /\ saltFile = [n \in Nodes |-> ProvisionedSalt]
    /\ ClientInit
    /\ table = {StoredRow}
    /\ clock = 0
    /\ call = [c \in Threads |-> Idle]
    /\ ret = [c \in Threads |-> NoRet]
    /\ SSEInit
    /\ ClusterInit(Nodes, REPLICA, TRUE)

SpecPopulated ==
    InitPopulated
        /\ [][NextStore /\ UNCHANGED <<clientVars, saltVars, sseVars, clusterVars>>]_vars

SpecCrypto ==
    InitStore
        /\ [][NextCrypto /\ UNCHANGED <<clientVars, saltVars, sseVars, clusterVars>>]_vars

SpecSSE ==
    InitStore
        /\ [][NextSSE /\ UNCHANGED <<clientVars, saltVars, storeVars, clusterVars>>]_vars

InitFifo ==
    /\ SaltInit /\ saltFile = [n \in Nodes |-> ProvisionedSalt]
    /\ ClientInit
    /\ StoreInit
    /\ SSEManager(FifoQueueSize)
    /\ ClusterInit(Nodes, REPLICA, TRUE)

SpecFifo ==
    InitFifo
        /\ [][NextFifo /\ UNCHANGED <<clientVars, saltVars, storeVars, clusterVars>>]_vars

SpecStream ==
    InitStore
        /\ [][NextStream /\ UNCHANGED <<clientVars, saltVars, storeVars, clusterVars>>]_vars

\* the event loop runs every task that can take a step
FairSpecStream ==
    SpecStream
        /\ \A n \in 1..Len(SubscriptionIds) :
               WF_vars(StreamSteps(SubscriptionIds[n])
                          /\ UNCHANGED <<datetime_now, clientVars, saltVars,
                                         storeVars, clusterVars>>)

SpecDuration ==
    InitStore
        /\ [][NextDuration
                 /\ UNCHANGED <<clientVars, saltVars, storeVars, clusterVars>>]_vars

\* one manager in a three-node cluster of either mode, its peers passive
InitClusterManager ==
    /\ SaltInit /\ saltFile = [n \in Nodes |-> ProvisionedSalt]
    /\ ClientInit
    /\ StoreInit
    /\ SSEInit
    /\ \E mode \in ClusterMode : ClusterInit(Nodes, mode, TRUE)

SpecClusterManager ==
    InitClusterManager
        /\ [][NextClusterManager
                 /\ UNCHANGED <<clientVars, saltVars, sseVars, table, call, ret>>]_vars

InitLifecycle ==
    /\ SaltInit /\ saltFile = [n \in Nodes |-> ProvisionedSalt]
    /\ ClientInit
    /\ StoreInit
    /\ SSEInit
    /\ \E mode \in ClusterMode : ClusterInit(Nodes, mode, FALSE)

SpecLifecycle ==
    InitLifecycle
        /\ [][NextLifecycle
                 /\ UNCHANGED <<clientVars, saltVars, sseVars, table, call, ret>>]_vars

SpecLoops ==
    InitLifecycle
        /\ [][NextLoops
                 /\ UNCHANGED <<clientVars, saltVars, sseVars, table, call, ret>>]_vars

\* The event loop runs each of the two tasks: every sleep ends and every
\* request ends, by answer, error or timeout.  Nothing is assumed of the
\* exceptions, of start() and stop(), or of the peers.
FairSpecLoops ==
    /\ SpecLoops
    /\ WF_vars(HealthSteps(ManagerNode)
                  /\ UNCHANGED <<clientVars, saltVars, sseVars, table, call, ret>>)
    /\ WF_vars(SyncSteps(ManagerNode)
                  /\ UNCHANGED <<clientVars, saltVars, sseVars, table, call, ret>>)

InitFederatedList ==
    /\ SaltInit /\ saltFile = [n \in Nodes |-> ProvisionedSalt]
    /\ ClientInit
    /\ StoreInit
    /\ SSEInit
    /\ ClusterInit(Nodes, FEDERATED, TRUE)

SpecFederatedList ==
    InitFederatedList
        /\ [][NextFederatedList
                 /\ UNCHANGED <<clientVars, saltVars, sseVars, table, call, ret>>]_vars

\* one manager built from any OSC_CLUSTER_NODE_ID and OSC_CLUSTER_NODES
InitRegistry ==
    /\ SaltInit /\ saltFile = [n \in Nodes |-> ProvisionedSalt]
    /\ ClientInit
    /\ StoreInit
    /\ SSEInit
    /\ \E node_id \in NodeIds(ManagerNode), cluster_nodes \in ClusterNodes,
          mode \in ClusterMode :
          ClusterManagerInit(
              [n \in Nodes |->
                  IF n = ManagerNode
                  THEN ParseClusterNodes(node_id, cluster_nodes) ELSE {}],
              mode, TRUE)

SpecRegistry ==
    InitRegistry
        /\ [][NextRegistry
                 /\ UNCHANGED <<clientVars, saltVars, sseVars, table, call, ret>>]_vars

\* two nodes of main.py, each with the other as its only peer
InitCluster ==
    /\ SaltInit /\ saltFile = [n \in Nodes |-> ProvisionedSalt]
    /\ ClientInit
    /\ StoreInit
    /\ SSEInit
    /\ \E mode \in ClusterMode : ClusterInit(Replicas, mode, TRUE)

SpecCluster ==
    InitCluster
        /\ [][NextCluster
                 /\ UNCHANGED <<clientVars, saltVars, sseVars, table, call, ret>>]_vars

\* The steps of the two background tasks of node n: every sleep ends and
\* every request ends, by answer, error or timeout.
LoopSteps(n) ==
    /\ HealthSteps(n) \/ SyncSteps(n)
    /\ UNCHANGED <<clientVars, saltVars, sseVars, table, call, ret>>

FairSpecCluster == SpecCluster /\ \A n \in Replicas : WF_vars(LoopSteps(n))

\* The steps of node n's own startup (its event loop runs them; every
\* sleep and every request ends, the latter by answer, error or timeout).
BootStep(n) ==
    /\ \/ SyncStart(n)
       \/ Distribute(n)
       \/ Fetch(n)
       \/ Elect(n)
       \/ Grace(n)
       \/ BootPush(n)
       \/ PollSleep(n)
       \/ PollGet(n)
    /\ UNCHANGED <<receiving, pushed, clientVars, storeVars, sseVars,
                   clusterVars>>

FairSpecSalt == SpecSalt /\ \A n \in Nodes : WF_vars(BootStep(n))

\* No salt file existed when the cluster was first started.  A provisioned
\* file is never removed or replaced (ProvisionedSaltStays), and no draw
\* equals it, so this is a property of the start that every later state
\* still shows.
StartedEmpty == \A n \in Nodes : saltFile[n] # ProvisionedSalt

ProvisionedSaltStays ==
    [][\A n \in Nodes : saltFile[n] = ProvisionedSalt
                            => saltFile'[n] = ProvisionedSalt]_vars

AllBootstrapped == \A n \in Nodes : pc[n] = "serving"

\* C2: any two nodes that hold a salt hold the same salt.
C2_SaltsIdentical ==
    \A n, m \in Nodes :
        (saltFile[n] # NoSalt /\ saltFile[m] # NoSalt)
            => saltFile[n] = saltFile[m]

\* C3: in a cluster started without any salt, only the node with the
\* smallest node id ever generates salt material, and it generates once.
C3_OnlyElectedGeneratesOnce ==
    StartedEmpty =>
        /\ \A n \in Nodes : generated[n] > 0 => n = BootstrapNode(n)
        /\ \A n \in Nodes : generated[n] <= 1
        /\ Cardinality({n \in Nodes : generated[n] > 0}) <= 1

\* C4 as stated: started without any salt, no node polls more than 5 times
\* and once the bootstrap has completed on all three nodes, every node
\* holds a salt and the three salts are identical.
C4_CompletedMeansShared ==
    StartedEmpty =>
        /\ \A n \in Nodes : attempt[n] <= PollAttempts
        /\ AllBootstrapped =>
               \A n, m \in Nodes :
                   saltFile[n] # NoSalt /\ saltFile[n] = saltFile[m]

C4_AmendedState ==
    StartedEmpty =>
        /\ \A n \in Nodes : attempt[n] <= PollAttempts
        /\ (\A n \in Nodes : syncResult[n] = "true") =>
               \A n, m \in Nodes :
                   saltFile[n] # NoSalt /\ saltFile[n] = saltFile[m]

\* C4 amended: the bootstrap terminates on every node, a node polls at most
\* 5 times, and once the bootstrap has returned True on all three nodes of
\* a cluster started without any salt, every node holds a salt and the
\* three salts are identical.
C4_SuccessfulMeansShared == []C4_AmendedState /\ <>AllBootstrapped

C4_Witness ==
    /\ StartedEmpty
    /\ \A n \in Nodes : syncResult[n] = "true" /\ saltFile[n] # NoSalt
    /\ \E n \in Nodes : attempt[n] > 1

(***************************************************************************)
(* Store claims                                                            *)
(***************************************************************************)

\* C1: at most one entry for each (key, environment) pair.
C1_UniquePair ==
    \A r1, r2 \in table :
        (r1.key = r2.key /\ r1.environment = r2.environment) => r1 = r2

\* the same key held in two environments
C1_Witness ==
    \E r1, r2 \in table : r1.key = r2.key /\ r1.environment # r2.environment

\* thread c commits a call of one of ops in this step
Commits(c, ops) ==
    call[c].pc = "checked" /\ call[c].op \in ops /\ call'[c].pc = "idle"

\* C5: right after a create succeeds, a read of the pair by the same
\* manager returns the created value, key, environment and category; and a
\* step that commits no update or delete of a pair leaves what a successful
\* read of that pair returns as it was.
C5_CreateThenRead ==
    [][/\ \A c \in Threads :
            (Commits(c, {"create"}) /\ ret'[c].status = "ok") =>
                LET r == read(table', call[c].key, call[c].environment,
                              call[c].user_key)
                IN  /\ r.status = "ok"
                    /\ r.value = call[c].value
                    /\ r.key = call[c].key
                    /\ r.environment = call[c].environment
                    /\ r.category = call[c].category
       /\ \A key \in Keys, environment \in Environments, u \in UserKeys :
            (/\ read(table, key, environment, u).status = "ok"
             /\ ~ \E c \in Threads :
                    /\ Commits(c, {"update", "delete"})
                    /\ call[c].key = key
                    /\ call[c].environment = environment)
            => read(table', key, environment, u)
                   = read(table, key, environment, u)
      ]_vars

\* a create has returned and a read of its pair returns the same value and
\* category
C5_Witness ==
    \E c \in Threads, u \in UserKeys :
        /\ ret[c].op = "create" /\ ret[c].status = "ok"
        /\ ret[c].value = "v2" /\ ret[c].category = "c1"
        /\ read(table, ret[c].key, ret[c].environment, u).status = "ok"
        /\ read(table, ret[c].key, ret[c].environment, u).value
               = ret[c].value
        /\ read(table, ret[c].key, ret[c].environment, u).category
               = ret[c].category

\* C6: a create that passed its existence check and then commits succeeds
\* when no row for the pair was committed meanwhile and fails with
\* DuplicateKeyError otherwise; either way exactly one row for the pair
\* exists afterwards.
C6_RacingCreates ==
    [][\A c \in Threads :
          Commits(c, {"create"}) =>
              /\ ret'[c].status \in {"ok", "DuplicateKeyError"}
              /\ ret'[c].status = "ok" <=>
                     Matching(table, call[c].key, call[c].environment) = {}
              /\ Cardinality(Matching(table', call[c].key,
                                      call[c].environment)) = 1
      ]_vars

\* C7: a create call passes its existence check only when the table holds
\* no row for the pair; a create call that fails at the check fails with
\* DuplicateKeyError exactly when the pair is given and held, and it changes
\* nothing in the table.
C7_DuplicateCreate ==
    [][\A c \in Threads :
          call[c].pc = "idle" =>
              /\ (call'[c].pc = "checked" /\ call'[c].op = "create")
                    => Matching(table, call'[c].key,
                                call'[c].environment) = {}
              /\ (ret'[c] # ret[c] /\ ret'[c].op = "create")
                    => /\ table' = table
                       /\ ret'[c].status
                            \in {"DuplicateKeyError", "ValidationError"}
                       /\ ret'[c].status = "DuplicateKeyError"
                            <=> Matching(table, ret'[c].key,
                                         ret'[c].environment) # {}
      ]_vars

C7_Witness ==
    \E c \in Threads :
        /\ ret[c].op = "create" /\ ret[c].status = "DuplicateKeyError"
        /\ table # {}

C21_UpdateFrame ==
    [][\A c \in Threads :
          (Commits(c, {"update"}) /\ ret'[c].status = "ok") =>
              /\ \A q \in table :
                     (q.key # call[c].key
                         \/ q.environment # call[c].environment)
                     => q \in table'
              /\ \E r \in Matching(table, call[c].key, call[c].environment) :
                 \E u \in table' :
                     /\ u.id = r.id /\ u.key = r.key
                     /\ u.environment = r.environment
                     /\ u.created_at = r.created_at
                     /\ u.updated_at >= r.updated_at
                     /\ u.category = IF call[c].category # None
                                     THEN call[c].category ELSE r.category
                     /\ read(table', u.key, u.environment,
                             call[c].user_key).value = call[c].value
      ]_vars

\* C22: a read, update or delete call for a pair that has no entry, also
\* when the key has an entry in another environment, fails with
\* NotFoundError and leaves the table as it was; no update or delete gets
\* past its query for such a pair, and no call fails with NotFoundError
\* for a pair that has an entry.
C22_NotFound ==
    [][\A c \in Threads :
          call[c].pc = "idle" =>
              /\ (call'[c].pc = "checked"
                     /\ call'[c].op \in {"update", "delete"})
                    => \E r \in table :
                           /\ r.key = call'[c].key
                           /\ r.environment = call'[c].environment
              /\ (/\ ret'[c] # ret[c]
                  /\ ret'[c].op \in {"read", "update", "delete"}
                  /\ ret'[c].environment \in Environments)
                    => /\ table' = table
                       /\ ret'[c].status = "NotFoundError"
                            <=> ~ \E r \in table :
                                     /\ r.key = ret'[c].key
                                     /\ r.environment = ret'[c].environment
      ]_vars

\* a call has failed with NotFoundError for a pair whose key has an entry
\* in the other environment only
C22_Witness ==
    /\ ret["t1"].status = "NotFoundError"
    /\ \E r \in table :
           r.key = ret["t1"].key /\ r.environment # ret["t1"].environment
    /\ ~ \E r \in table :
           r.key = ret["t1"].key /\ r.environment = ret["t1"].environment

\* C23: a delete that commits leaves no entry for its pair, so that a read
\* of the pair fails with NotFoundError and a create of the pair passes its
\* existence check, and it leaves the entry of every other pair, the same
\* key in another environment included, as it was.
C23_DeleteFrame ==
    [][\A c \in Threads :
          (Commits(c, {"delete"}) /\ ret'[c].status = "ok") =>
              /\ \A u \in UserKeys :
                     read(table', call[c].key, call[c].environment, u).status
                         = "NotFoundError"
              /\ First(table', call[c].key, call[c].environment) = NoRow
              /\ \A q \in table :
                     (q.key # call[c].key
                         \/ q.environment # call[c].environment)
                     => q \in table'
      ]_vars

C9_FilteredDelivery ==
    [][event' # event =>
         LET Match(s) ==
                 /\ s.key # None => s.key = event'.key
                 /\ s.environment # None => s.environment = event'.environment
                 /\ s.category # None => s.category = event'.category
             Delivered(i) ==
                 subscriptions'[i].queue
                     = Append(subscriptions[i].queue, event')
             Kept(i) == subscriptions'[i].queue = subscriptions[i].queue
         IN  /\ DOMAIN subscriptions' = DOMAIN subscriptions
             /\ \A i \in DOMAIN subscriptions :
                    IF Match(subscriptions[i])
                    THEN \/ Delivered(i)
                         \/ QueueFull(subscriptions[i].queue) /\ Kept(i)
                    ELSE Kept(i)
             /\ (stats'.total_events_sent - stats.total_events_sent)
                  + (stats'.events_dropped_queue_full
                       - stats.events_dropped_queue_full)
                = Cardinality({i \in DOMAIN subscriptions :
                                   Match(subscriptions[i])})
      ]_vars

\* C10: no queue ever holds more than max_queue_size events; a broadcast
\* leaves the queue of every matching subscriber that already holds
\* max_queue_size events as it is, adds the number of those subscribers to
\* events_dropped_queue_full, and appends the event to the queue of every
\* other matching subscriber.
C10_DropOnFull ==
    [][/\ \A i \in DOMAIN subscriptions' :
              Len(subscriptions'[i].queue) <= max_queue_size
       /\ event' # event =>
            LET matching == find_matching_subscriptions(
                                subscriptions, event'.key,
                                event'.environment, event'.category)
                full == {i \in matching :
                            Len(subscriptions[i].queue) = max_queue_size}
            IN  /\ DOMAIN subscriptions' = DOMAIN subscriptions
                /\ \A i \in full :
                       subscriptions'[i].queue = subscriptions[i].queue
                /\ stats'.events_dropped_queue_full
                       = stats.events_dropped_queue_full + Cardinality(full)
                /\ \A i \in matching \ full :
                       subscriptions'[i].queue
                           = Append(subscriptions[i].queue, event')
      ]_vars

\* the last event was dropped for one matching subscriber, whose full queue
\* holds older events only, and delivered to another
C10_Witness ==
    \E i, j \in DOMAIN subscriptions :
        /\ matches(subscriptions[i], event.key, event.environment,
                   event.category)
        /\ Len(subscriptions[i].queue) = max_queue_size
        /\ \A n \in 1..Len(subscriptions[i].queue) :
               subscriptions[i].queue[n].timestamp < event.timestamp
        /\ subscriptions[j].queue # <<>>
        /\ subscriptions[j].queue[Len(subscriptions[j].queue)] = event
        /\ stats.events_dropped_queue_full > 0


\* C11: the timestamp of an event is the number of its broadcast_event call.
\* Every subscription's stream yields events in the order of those calls:
\* each yielded event was published after the one yielded before it, the
\* events waiting in the queue wait in the order of their publication, and
\* all of them were published after the event yielded last, whether or not
\* events were dropped in between.
C11_FifoOrder ==
    [][\A i \in DOMAIN subscriptions' :
          LET queue == subscriptions'[i].queue IN
          /\ \A n \in 1..Len(queue) : yielded'[i] < queue[n].timestamp
          /\ \A m, n \in 1..Len(queue) :
                 m < n => queue[m].timestamp < queue[n].timestamp
          /\ (i \in DOMAIN subscriptions /\ yielded'[i] # yielded[i])
                 => yielded[i] < yielded'[i]
      ]_vars

\* the only subscription ever made matched every event, its queue was full
\* when the third event came, and its stream has yielded all the others up
\* to the last one
C11_Witness ==
    /\ stats.total_subscriptions_created = 1
    /\ stats.total_events_sent = FifoEvents - 1
    /\ stats.events_dropped_queue_full = 1
    /\ \E i \in DOMAIN subscriptions :
           subscriptions[i].queue = <<>> /\ yielded[i] = FifoEvents

\* C12: a broadcast gives its event to every registered subscription that
\* matches it, either as one copy at the end of the queue or as one drop
\* that leaves the queue as it was, and leaves every other queue as it was;
\* total_events_sent grows by the number of copies, events_dropped_queue_
\* full by the number of drops, so their sum grows by the number of matching
\* subscriptions.  A stream takes an event off its queue as a whole: no copy
\* of it stays behind, and it is not the event the stream yielded before.
C12_ExactlyOnce ==
    [][/\ event' # event =>
            LET matching ==
                    {i \in DOMAIN subscriptions :
                        matches(subscriptions[i], event'.key,
                                event'.environment, event'.category)}
                Copies(queue) ==
                    Cardinality({n \in 1..Len(queue) : queue[n] = event'})
                enqueued ==
                    {i \in DOMAIN subscriptions :
                        /\ subscriptions'[i].queue
                               = Append(subscriptions[i].queue, event')
                        /\ Copies(subscriptions'[i].queue) = 1}
                kept ==
                    {i \in DOMAIN subscriptions :
                        subscriptions'[i].queue = subscriptions[i].queue}
            IN  /\ DOMAIN subscriptions' = DOMAIN subscriptions
                /\ \A i \in matching : i \in enqueued <=> i \notin kept
                /\ \A i \in DOMAIN subscriptions \ matching : i \in kept
                /\ stats'.total_events_sent
                       = stats.total_events_sent + Cardinality(enqueued)
                /\ stats'.events_dropped_queue_full
                       = stats.events_dropped_queue_full
                           + Cardinality(matching \cap kept)
                /\ (stats'.total_events_sent
                        + stats'.events_dropped_queue_full)
                     - (stats.total_events_sent
                          + stats.events_dropped_queue_full)
                   = Cardinality(matching)
       /\ \A i \in DOMAIN subscriptions \cap DOMAIN subscriptions' :
            Len(subscriptions'[i].queue) < Len(subscriptions[i].queue) =>
                LET taken == Head(subscriptions[i].queue) IN
                /\ subscriptions[i].queue
                       = <<taken>> \o subscriptions'[i].queue
                /\ \A n \in 1..Len(subscriptions'[i].queue) :
                       subscriptions'[i].queue[n] # taken
                /\ yielded'[i] = taken.timestamp
                /\ yielded[i] < taken.timestamp
      ]_vars

\* the stream of a matching subscription has yielded the last event, which
\* another registered subscription did not match and did not get
C12_Witness ==
    \E i, j \in DOMAIN subscriptions :
        /\ matches(subscriptions[i], event.key, event.environment,
                   event.category)
        /\ yielded[i] = event.timestamp
        /\ subscriptions[i].queue = <<>>
        /\ ~matches(subscriptions[j], event.key, event.environment,
                    event.category)
        /\ subscriptions[j].queue = <<>> /\ yielded[j] = 0
        /\ stats.total_events_sent + stats.events_dropped_queue_full = 1

\* index lists exactly the registered subscriptions under the value of
\* their filter f, and has no empty entry
Indexed(index, f) ==
    /\ \A id \in DOMAIN subscriptions :
           subscriptions[id][f] # None =>
               /\ subscriptions[id][f] \in DOMAIN index
               /\ id \in index[subscriptions[id][f]]
    /\ \A v \in DOMAIN index :
           /\ index[v] # {}
           /\ \A id \in index[v] :
                  /\ id \in DOMAIN subscriptions
                  /\ subscriptions[id][f] = v

\* C25: in every state a subscription id is listed in the key, environment
\* or category index under v if and only if the subscription is registered
\* with that filter set to v, so that an id that was unsubscribed is in no
\* index; and no index has an empty entry.
C25_IndexedIffRegistered ==
    /\ Indexed(by_key, "key")
    /\ Indexed(by_environment, "environment")
    /\ Indexed(by_category, "category")

\* C26: when a subscription is closed, the average subscription lifetime
\* of the statistics becomes the mean of the lifetimes of all subscriptions
\* closed so far (the average times the number closed grows by the
\* lifetime of the one just closed), and it is greater than zero once a
\* subscription with a positive lifetime has been closed.
C26_AverageLifetime ==
    [][\A id \in DOMAIN subscriptions \ DOMAIN subscriptions' :
          LET duration == datetime_now - subscriptions[id].created_at IN
          /\ stats'.average_subscription_duration_seconds
                 * stats'.total_subscriptions_closed
               = stats.average_subscription_duration_seconds
                     * stats.total_subscriptions_closed
                 + duration
          /\ duration > 0
                 => stats'.average_subscription_duration_seconds > 0
      ]_vars

\* C27: once the connection of a stream has ended, the subscription made
\* for it is eventually removed from the registry, also when the connection
\* ends before the first message was sent.
C27_EndedStreamsUnsubscribed ==
    \A n \in 1..Len(SubscriptionIds) :
        (/\ SubscriptionIds[n] \in DOMAIN stream
         /\ stream[SubscriptionIds[n]].connection = "ended")
            ~> SubscriptionIds[n] \notin DOMAIN subscriptions

(***************************************************************************)
(* Cluster claims                                                          *)
(***************************************************************************)

\* the rows node n holds for the pair
Held(n, key, environment) ==
    {r \in configs[n] : r.key = key /\ r.environment = environment}

\* every node answers and every registry entry is healthy
AllHealthy ==
    \A n \in Replicas :
        Up(n) /\ \A p \in DOMAIN nodes[n] : nodes[n][p]

\* C13: in REPLICA mode, once a node holds an entry for a pair by a write
\* that succeeded locally, every node comes to hold the same key,
\* environment and value for the pair, unless some node stops answering or
\* is marked unhealthy on the way.
C13_ReplicaConverges ==
    \A n \in Replicas : \A key \in Keys : \A environment \in Environments :
        (cluster_mode = REPLICA /\ Held(n, key, environment) # {})
            ~> \/ ~AllHealthy
               \/ \A p \in Replicas :
                      {r.value : r \in Held(p, key, environment)}
                          = {r.value : r \in Held(n, key, environment)}

\* C14: a handler step that commits a local write answers its caller with
\* success (200 or 201), whatever becomes of the broadcast; a broadcast is
\* started only by a handler step that has committed its local write, and a
\* handler step that answers with an error has started none.
C14_LocalFirst ==
    [][\A n \in Replicas :
          /\ configs'[n] # configs[n] => response'[n].status \in {200, 201}
          /\ (fanout'[n] # fanout[n] /\ fanout'[n].op \in Broadcasts
                 /\ fanout'[n].state = "running" /\ fanout'[n].i = 1
                 /\ ~fanout'[n].in_flight)
                => configs'[n] # configs[n]
          /\ (response'[n] # response[n] /\ response'[n].status >= 400)
                => fanout'[n] = fanout[n]
      ]_vars

\* C15: in REPLICA mode, when node p holds more entries than node n (n was
\* unreachable when they were created), n answers again and the last probe
\* of n by p found it healthy, then the reconciliation cycles that follow
\* bring the number of entries of n to that of p, unless some node stops
\* answering or is marked unhealthy on the way.
C15_CountsMatchAfterRecovery ==
    \A n \in Replicas : \A p \in Replicas \ {n} :
        (/\ cluster_mode = REPLICA
         /\ AllHealthy
         /\ probed[p][n] = "200"
         /\ Cardinality(configs[p]) > Cardinality(configs[n]))
            ~> \/ ~AllHealthy
               \/ Cardinality(configs[n]) = Cardinality(configs[p])

\* C16: the step of a reconciliation cycle that merges the answer of peer p
\* into node n leaves n with an entry for every pair p holds, no older than
\* the entry of p, and with every entry n held before or a newer one for
\* its pair.
C16_MergeLastWriterWins ==
    [][\A n \in Replicas : \A p \in DOMAIN nodes[n] :
          (p \in sync'[n].merged /\ p \notin sync[n].merged) =>
              /\ \A r \in configs[p] :
                     \E l \in Held(n, r.key, r.environment)' :
                         l.updated_at >= r.updated_at
              /\ \A r \in configs[n] :
                     \E l \in Held(n, r.key, r.environment)' :
                         l.updated_at >= r.updated_at
      ]_vars

\* the nodes a call took as its healthy_nodes
Targets(call_) == {call_.healthy_nodes[k] : k \in 1..Len(call_.healthy_nodes)}

\* a broadcast or a federated query of node n starts in this step
Starts(n) == fanout[n].state = "returned" /\ fanout'[n].state = "running"

\* C17: a failed probe of a peer (an exception or a status other than 200)
\* leaves the peer marked unhealthy and a probe answered with 200 leaves it
\* marked healthy; a broadcast or a federated query that starts takes
\* exactly the peers whose last probe did not fail, keeps that list while
\* it runs and sends requests to no other node; no probe removes a peer
\* from the registry.
C17_UnhealthyExcluded ==
    [][LET n == ManagerNode IN
       /\ DOMAIN nodes'[n] = DOMAIN nodes[n]
       /\ \A p \in DOMAIN nodes[n] :
              /\ probed'[n][p] \in {"error_status", "exception"}
                    => ~nodes'[n][p]
              /\ probed'[n][p] = "200" => nodes'[n][p]
       /\ Starts(n) =>
              \A p \in DOMAIN nodes[n] :
                  p \in Targets(fanout'[n])
                      <=> probed[n][p] \notin {"error_status", "exception"}
       /\ (fanout[n].state = "running" /\ fanout'[n].state = "running")
              => fanout'[n].healthy_nodes = fanout[n].healthy_nodes
       /\ fanout'[n].in_flight
              => fanout'[n].healthy_nodes[fanout'[n].i]
                     \in Targets(fanout'[n])
      ]_vars

\* a broadcast runs without node-b, whose probe had failed when it started,
\* and with node-c; meanwhile node-b has been probed with success and
\* node-c has failed its probe
C17_Witness ==
    /\ fanout[ManagerNode].op \in Broadcasts
    /\ fanout[ManagerNode].state = "running"
    /\ fanout[ManagerNode].healthy_nodes = <<"node-c">>
    /\ fanout[ManagerNode].in_flight
    /\ probed[ManagerNode]["node-b"] = "200"
    /\ nodes[ManagerNode]["node-b"]
    /\ probed[ManagerNode]["node-c"] = "error_status"
    /\ ~nodes[ManagerNode]["node-c"]

\* C18: when the request of a broadcast, of a federated query or of a
\* reconciliation cycle to one peer ends with an exception or an error
\* status, the loop goes on to the next peer of its list; a call never
\* raises, it returns without a result only after the request to the last
\* peer of its list has ended, and none of these steps changes a local
\* entry.
C18_FailureConfined ==
    [][LET n == ManagerNode IN
       /\ fanout'[n].state # "raised"
       /\ (fanout[n].in_flight /\ fanout'[n] # fanout[n]
              /\ Outcome(fanout[n].healthy_nodes[fanout[n].i]) # "200")
             => /\ fanout'[n].state = "running"
                /\ fanout'[n].i = fanout[n].i + 1
                /\ fanout'[n].healthy_nodes = fanout[n].healthy_nodes
                /\ configs' = configs
       /\ (fanout[n].state = "running" /\ fanout'[n].state = "returned"
              /\ ~fanout'[n].found)
             => fanout[n].i = Len(fanout[n].healthy_nodes) + 1
       /\ (sync[n].pc = "pull" /\ sync'[n] # sync[n]
              /\ Outcome(sync[n].healthy_nodes[sync[n].i]) # "200")
             => /\ sync'[n].merged = sync[n].merged
                /\ configs' = configs
                /\ IF sync[n].i < Len(sync[n].healthy_nodes)
                   THEN /\ sync'[n].pc = "pull"
                        /\ sync'[n].i = sync[n].i + 1
                        /\ sync'[n].healthy_nodes = sync[n].healthy_nodes
                   ELSE sync'[n].pc = "sleep"
      ]_vars

\* a broadcast to node-b and node-c has returned after the request to
\* node-b had ended with an exception and the one to node-c had not
C18_Witness ==
    /\ fanout[ManagerNode].op \in Broadcasts
    /\ fanout[ManagerNode].state = "returned"
    /\ fanout[ManagerNode].healthy_nodes = <<"node-b", "node-c">>
    /\ fanout[ManagerNode].failed = {"node-b"}
    /\ fanout[ManagerNode].i = 3

\* C19: the requests of one broadcast do not wait for one another: while
\* the request to one peer is in flight, the request to every other peer of
\* the broadcast has been sent as well.
C19_ConcurrentDelivery ==
    \A n \in Nodes :
        (fanout[n].op \in Broadcasts /\ fanout[n].in_flight)
            => \A k \in 1..Len(fanout[n].healthy_nodes) : k <= fanout[n].i

\* C20: start() leaves one health-check loop running and, in REPLICA mode
\* and in no other, one reconciliation loop, and these are the background
\* tasks; stop() returns only when every loop it cancelled has ended, the
\* set of background tasks is then empty, and after stop() was called no
\* loop takes a further step: no probe, no reconciliation request.
C20_StartStop ==
    [][LET n == ManagerNode IN
       /\ (manager[n] = "new" /\ manager'[n] = "started") =>
              /\ health'[n].pc = "sleep"
              /\ sync'[n].pc = "sleep" <=> cluster_mode = REPLICA
              /\ sync'[n].pc = "none" <=> cluster_mode # REPLICA
              /\ background_tasks'[n]
                     = {"health"} \cup (IF cluster_mode = REPLICA
                                        THEN {"sync"} ELSE {})
       /\ manager'[n] = "stopped" =>
              /\ health'[n].pc = "done"
              /\ sync'[n].pc = IF cluster_mode = REPLICA THEN "done"
                                                         ELSE "none"
              /\ background_tasks'[n] = {}
       /\ manager[n] \in {"stopping", "stopped"} =>
              /\ probed' = probed /\ nodes' = nodes /\ configs' = configs
              /\ health'[n].pc \in {health[n].pc, "done"}
              /\ sync'[n].pc \in {sync[n].pc, "done"}
              /\ sync'[n].merged = sync[n].merged
      ]_vars

\* stop() has returned in REPLICA mode after the health-check loop had
\* probed both peers and the reconciliation loop had merged an answer
C20_Witness ==
    /\ manager[ManagerNode] = "stopped"
    /\ cluster_mode = REPLICA
    /\ \A p \in DOMAIN probed[ManagerNode] :
           probed[ManagerNode][p] # "never"
    /\ sync[ManagerNode].merged # {}
    /\ background_tasks[ManagerNode] = {}

\* C28: the registry of a manager never holds an entry for the manager's
\* own node, whatever node id and peer list it was built with, and no step
\* adds an entry to a registry or removes one.
C28_RegistryStatic ==
    /\ [](ManagerNode \notin DOMAIN nodes[ManagerNode])
    /\ [][\A n \in Nodes : DOMAIN nodes'[n] = DOMAIN nodes[n]]_vars

\* C29: a federated_read called in REPLICA mode returns None without a
\* request; called in FEDERATED mode it takes the healthy peers in registry
\* order and asks them one at a time from the first on; the first answer
\* with status 200 ends the call with that answer and no peer after it is
\* asked; an exception or another status moves on to the next peer; and the
\* call returns None only when every healthy peer was asked without a hit.
C29_FederatedRead ==
    [][LET n == ManagerNode
           f == fanout[n]
           g == fanout'[n]
       IN
       /\ (f.state = "returned" /\ g # f /\ g.op = "federated_read") =>
              IF cluster_mode = REPLICA
              THEN g = [NoCall EXCEPT !.op = "federated_read"]
              ELSE /\ g.state = "running" /\ g.i = 1 /\ ~g.in_flight
                   /\ ~g.found
                   /\ g.healthy_nodes
                         = SelectSeq(NodeSeq,
                               LAMBDA p : /\ p \in DOMAIN nodes[n]
                                          /\ nodes[n][p])
       /\ (f.op = "federated_read" /\ f.state = "running" /\ g # f) =>
              /\ g.op = f.op /\ g.healthy_nodes = f.healthy_nodes
              /\ IF ~f.in_flight
                 THEN IF f.i <= Len(f.healthy_nodes)
                      THEN g.in_flight /\ g.i = f.i /\ g.state = "running"
                      ELSE g.state = "returned" /\ ~g.found /\ ~g.in_flight
                 ELSE /\ ~g.in_flight
                      /\ IF reachable[f.healthy_nodes[f.i]] = "up"
                         THEN /\ g.state = "returned" /\ g.found
                              /\ g.i = f.i
                         ELSE /\ g.state = "running" /\ ~g.found
                              /\ g.i = f.i + 1
       /\ (f.op = "federated_read" /\ f.state = "returned" /\ g.op = f.op
              /\ g.state = "returned") => g = f
      ]_vars

\* a federated_read over node-b and node-c has returned the answer of
\* node-b and has not asked node-c
C29_Witness ==
    /\ cluster_mode = FEDERATED
    /\ fanout[ManagerNode].op = "federated_read"
    /\ fanout[ManagerNode].state = "returned"
    /\ fanout[ManagerNode].found
    /\ fanout[ManagerNode].healthy_nodes = <<"node-b", "node-c">>
    /\ fanout[ManagerNode].i = 1

\* C30: a federated_list called in FEDERATED mode takes the healthy peers in
\* registry order and asks every one of them; the answer of a peer with
\* status 200 is merged behind the entries already taken: an entry taken
\* earlier stays, every key of the answer is in the result afterwards, an
\* entry is appended only for a key not seen before, and it is the first
\* entry of the answer with that key; a peer whose request fails leaves the
\* result as it was and the loop goes on; no two entries of the result share
\* a key, whatever their environments.
C30_FederatedList ==
    [][LET n == ManagerNode
           f == fanout[n]
           g == fanout'[n]
       IN
       /\ (/\ f.state = "returned" /\ g # f /\ g.op = "federated_list"
           /\ cluster_mode = FEDERATED) =>
              /\ g.state = "running" /\ g.i = 1 /\ ~g.in_flight
              /\ g.all_configs = <<>>
              /\ g.healthy_nodes
                    = SelectSeq(NodeSeq,
                          LAMBDA p : /\ p \in DOMAIN nodes[n]
                                     /\ nodes[n][p])
       /\ (f.op = "federated_list" /\ f.state = "running" /\ g # f) =>
              /\ g.op = f.op /\ g.healthy_nodes = f.healthy_nodes
              /\ IF ~f.in_flight
                 THEN /\ g.all_configs = f.all_configs
                      /\ IF f.i <= Len(f.healthy_nodes)
                         THEN g.in_flight /\ g.i = f.i /\ g.state = "running"
                         ELSE g.state = "returned" /\ ~g.in_flight
                 ELSE /\ ~g.in_flight /\ g.state = "running"
                      /\ g.i = f.i + 1
                      /\ LET p == f.healthy_nodes[f.i]
                             seen == f.all_configs
                             out == g.all_configs
                             new == (Len(seen) + 1)..Len(out)
                         IN IF reachable[p] = "up"
                            THEN /\ Len(out) >= Len(seen)
                                 /\ SubSeq(out, 1, Len(seen)) = seen
                                 /\ \A r \in configs[p] :
                                       \E i \in 1..Len(out) :
                                          out[i].key = r.key
                                 /\ \A i \in new :
                                       /\ out[i] \in configs[p]
                                       /\ \A r \in configs[p] :
                                             r.key = out[i].key
                                                => r.id >= out[i].id
                                 /\ \A i, j \in new :
                                       i < j => out[i].id < out[j].id
                            ELSE out = seen
       /\ g.op = "federated_list" =>
              \A i, j \in 1..Len(g.all_configs) :
                 g.all_configs[i].key = g.all_configs[j].key => i = j
      ]_vars

\* a federated_list over node-b and node-c has returned with the entry of
\* node-b for a key that node-c holds in another environment
C30_Witness ==
    LET f == fanout[ManagerNode] IN
    /\ cluster_mode = FEDERATED
    /\ f.op = "federated_list"
    /\ f.state = "returned"
    /\ f.healthy_nodes = <<"node-b", "node-c">>
    /\ f.failed = {}
    /\ Len(f.all_configs) = 1
    /\ f.all_configs[1] \in configs["node-b"]
    /\ f.all_configs[1].environment = "prod"
    /\ \E r \in configs["node-c"] :
          r.key = f.all_configs[1].key /\ r.environment = "dev"

(***************************************************************************)
(* Salt push and poll claims                                               *)
(***************************************************************************)

\* C31: a push that ends with status created has written its body to a
\* node that held no salt, one that ends with status ok met the same salt,
\* one that ends with 409 met another salt; and whatever the pushes, fetches
\* and requests that run side by side, a node that holds a salt holds the
\* same salt in every later state.
C31_PushNeverOverwrites ==
    [][/\ \A n \in Nodes : \A m \in Nodes \ {n} :
             pushed'[n][m] # pushed[n][m] =>
                CASE pushed'[n][m] = "created" ->
                        /\ saltFile[m] = NoSalt
                        /\ saltFile'[m] = saltData[n]
                  [] pushed'[n][m] = "ok" ->
                        saltFile[m] = saltData[n]
                  [] pushed'[n][m] = "conflict" ->
                        saltFile[m] \notin {NoSalt, saltData[n]}
                  [] OTHER -> saltFile'[m] = saltFile[m]
       /\ \A m \in Nodes :
             saltFile[m] # NoSalt => saltFile'[m] = saltFile[m]
      ]_vars

\* C32: on a node whose sync_encryption_salt has returned False, no request
\* draws a salt and the salt file never holds a salt the node generated.
C32_FailedBootstrapStaysUnusable ==
    \A n \in Nodes :
        syncResult[n] = "false" =>
            /\ generated[n] = 0
            /\ saltFile[n].by # n

\* C33: a node whose sync_encryption_salt has returned True holds a salt,
\* and every push it made was answered with status created or ok: none was
\* rejected with 409 and none failed to reach its peer.
C33_TrueMeansAccepted ==
    \A n \in Nodes :
        syncResult[n] = "true" =>
            /\ saltFile[n] # NoSalt
            /\ \A m \in Nodes \ {n} :
                  pushed[n][m] \in {"none", "created", "ok"}

\* C37: a poll attempt of a node without a salt whose request to one peer
\* fails because that peer is unreachable is given up without a salt only
\* if no other peer serves a salt at that time.
C37_PollObtainsServedSalt ==
    [][\A n \in Nodes :
          (/\ pc[n] = "poll" /\ pc'[n] = "wait"
           /\ ~Serving(PollSeq(n)[idx[n]])) =>
             ~\E m \in Nodes \ {n} : Serving(m) /\ saltFile[m] # NoSalt
      ]_vars

\* C38: at most one reconciliation cycle runs at a time on a node.  While
\* sync_in_progress stays set the cycle keeps the healthy_nodes it took and
\* goes on from the peer it was at, so a call made meanwhile has contacted
\* nobody; sync_in_progress is set only while a cycle is at its requests,
\* whichever way the cycle ended (no healthy peer, a failed request,
\* cancellation); and last_sync_time changes only in the step that ends a
\* cycle which had a healthy peer.
C38_OneCycleAtATime ==
    [][\A n \in Nodes :
          /\ sync[n].pc # "pull" => ~sync[n].sync_in_progress
          /\ sync'[n].pc # "pull" => ~sync'[n].sync_in_progress
          /\ (sync[n].sync_in_progress /\ sync'[n].sync_in_progress) =>
                /\ sync'[n].healthy_nodes = sync[n].healthy_nodes
                /\ sync'[n].i \in {sync[n].i, sync[n].i + 1}
                /\ sync[n].merged \subseteq sync'[n].merged
          /\ sync'[n].last_sync_time # sync[n].last_sync_time =>
                /\ sync[n].pc = "pull" /\ sync'[n].pc = "sleep"
                /\ Len(sync[n].healthy_nodes) > 0
                /\ sync[n].i = Len(sync[n].healthy_nodes)
      ]_vars

\* the sync task was cancelled in the middle of its first cycle, after the
\* answer of one peer was merged and before the other peer was asked
C38_Witness ==
    /\ sync[ManagerNode].pc = "done"
    /\ sync[ManagerNode].merged # {}
    /\ sync[ManagerNode].last_sync_time = Never
    /\ ~sync[ManagerNode].sync_in_progress

\* stats.subscriptions_by_*[v], a defaultdict(int)
Breakdown(d, v) == IF v \in DOMAIN d THEN d[v] ELSE 0

\* the registered subscriptions whose filter f has the value v
Registered(f, v) ==
    {id \in DOMAIN subscriptions : subscriptions[id][f] = v}

\* C39: between the calls of subscribe and unsubscribe, active_subscriptions
\* is the number of registered subscriptions and is
\* total_subscriptions_created - total_subscriptions_closed; the breakdown
\* counter of every value a filter can be given is the number of registered
\* subscriptions with that value; and no counter is negative.
C39_StatsMatchRegistry ==
    /\ stats.active_subscriptions = Cardinality(DOMAIN subscriptions)
    /\ stats.active_subscriptions =
           stats.total_subscriptions_created - stats.total_subscriptions_closed
    /\ \A v \in KeyFilters \ {None} :
           Breakdown(stats.subscriptions_by_key, v)
               = Cardinality(Registered("key", v))
    /\ \A v \in EnvironmentFilters \ {None} :
           Breakdown(stats.subscriptions_by_environment, v)
               = Cardinality(Registered("environment", v))
    /\ \A v \in CategoryFilters \ {None} :
           Breakdown(stats.subscriptions_by_category, v)
               = Cardinality(Registered("category", v))
    /\ stats.active_subscriptions >= 0
    /\ stats.subscriptions_wildcard >= 0

\* the health probe of peer p by node n
HealthProbe(n, p) ==
    /\ health[n].pc = "check"
    /\ Registry(n)[health[n].i] = p
    /\ check_nodes_health(n)

\* a request of a reconciliation cycle of node n
SyncPull(n) == \E now \in SyncTimes : sync_configurations(n, now)

\* C40: a background loop is over only once the manager is being stopped,
\* whatever exceptions its iterations raised; and unless the manager is
\* stopped (or was never started), the health loop probes every peer again
\* and again, a peer marked unhealthy included, and the reconciliation loop
\* of a REPLICA node makes requests again and again unless it finds no
\* healthy peer again and again.
C40_LoopsSurviveExceptions ==
    /\ [](\A n \in Nodes :
             (health[n].pc = "done" \/ sync[n].pc = "done")
                 => manager[n] # "started")
    /\ \A p \in Nodes \ {ManagerNode} :
          \/ []<>(manager[ManagerNode] # "started")
          \/ []<><<HealthProbe(ManagerNode, p)>>_vars
    /\ \/ []<>(manager[ManagerNode] # "started")
       \/ []<>(cluster_mode # REPLICA)
       \/ []<>(healthy_nodes(ManagerNode) = <<>>)
       \/ []<><<SyncPull(ManagerNode)>>_vars

\* both loops have caught an exception, and the health loop is about to
\* probe a peer it had marked unhealthy
C40_Witness ==
    /\ manager[ManagerNode] = "started"
    /\ health[ManagerNode].errors > 0
    /\ sync[ManagerNode].errors > 0
    /\ health[ManagerNode].pc = "check"
    /\ ~nodes[ManagerNode][Registry(ManagerNode)[health[ManagerNode].i]]

(***************************************************************************)
(* Client claims                                                           *)
(***************************************************************************)

\* C34: whatever call of the client was answered: an answer with status 401
\* or 403 has raised AuthenticationError, one with status 404
\* ConfigurationNotFoundError, one with status 400 whose detail says that the
\* configuration already exists ConfigurationExistsError, any other answer
\* with status 400 or above OpenSecureConfError, and no answer with status
\* 400 or above has been returned as a value.
C34_ErrorMapping ==
    api.name # "none" =>
        LET r == api.result IN
        /\ api.status >= 400 => r.kind = "raised"
        /\ r.kind = "raised" =>
              CASE api.status \in {401, 403} ->
                      IsA(r.class, "AuthenticationError")
                [] api.status = 404 ->
                      IsA(r.class, "ConfigurationNotFoundError")
                [] api.status = 400 /\ api.body = "object_exists" ->
                      IsA(r.class, "ConfigurationExistsError")
                [] OTHER -> IsA(r.class, "OpenSecureConfError")

\* reconnect_backoff to the power of k
RECURSIVE BackoffPower(_)
BackoffPower(k) == IF k = 0 THEN 1 ELSE ReconnectBackoff * BackoffPower(k - 1)

\* the delay before the k-th of a row of reconnection attempts
DelayOfAttempt(c, k) ==
    Min(c.reconnect_delay * BackoffPower(k - 1), MaxReconnectDelay)

\* the attempts are limited and a sleep of the loop is the delay of its
\* attempt
Backoff ==
    LET c == sse_client IN
    /\ c.max_reconnect_attempts >= 0
          => c.reconnect_attempts <= c.max_reconnect_attempts
    /\ c.task = "sleep" =>
          /\ c.current_delay <= MaxReconnectDelay
          /\ c.current_delay = DelayOfAttempt(c, c.reconnect_attempts)

\* C35: a client with auto_reconnect and max_reconnect_attempts = N >= 0
\* never counts more than N reconnection attempts in a row and its loop ends
\* at the failure after the N-th; the k-th attempt of a row waits
\* reconnect_delay * reconnect_backoff^(k-1), at most max_reconnect_delay;
\* and when a connection that was established breaks, a new row begins: the
\* loop reconnects after reconnect_delay, unless N = 0.
C35_Reconnect ==
    [][LET c == sse_client
           d == sse_client'
       IN
       (c.auto_reconnect /\ c.max_reconnect_attempts >= 0) =>
       /\ Backoff'
       /\ (c.task = "connected" /\ d.task = "sleep") =>
             /\ d.reconnect_attempts = 1
             /\ d.current_delay = c.reconnect_delay
       /\ (/\ c.task = "connected" /\ d.task = "done"
           /\ c.auto_reconnect /\ ~d.should_stop) =>
             c.max_reconnect_attempts = 0
       /\ (/\ c.task = "listen" /\ d.task = "done"
           /\ c.auto_reconnect /\ ~d.should_stop) =>
             c.reconnect_attempts = c.max_reconnect_attempts
      ]_vars

\* the connection loop has ended: at the limit of the attempts, by
\* SSEError without auto_reconnect, or cancelled by disconnect()
LoopEnded == sse_client.task \in {"done", "raised"}

\* C36: once the connection loop has ended is_connected() is False, and a
\* connect() called then starts a connection task and does not return with
\* the warning that the client is connected already.
C36_IsConnected ==
    /\ [](LoopEnded => ~is_connected)
    /\ [][(LoopEnded /\ ~sse_client.warned) => ~sse_client'.warned]_vars
=============================================================================
